---- MODULE Spec2Model ----
(***************************************************************************)
(* A model of tinywasm/assetmin: the reconciliation engine                 *)
(* (asset.UpdateContent), the cache coordinator (InvalidateCache,          *)
(* RegenerateCache, GetMinifiedContent), the bundle registry's event       *)
(* dispatch (UpdateFileContentInMemory, NewFileEvent, RefreshAsset) and    *)
(* the sprite engine's icon registration (addIcon).                        *)
(*                                                                         *)
(* Byte strings are sequences of tokens (strings).  A path is a string.    *)
(* An error value is a sequence of strings, <<>> being Go's nil.           *)
(***************************************************************************)
EXTENDS Integers, Sequences, FiniteSets, TLC

\* ------------------------------------------------------------------ bounds
\* Number of distinct source file paths the watcher reports.
NumPaths == 3
\* Number of distinct icon ids offered for registration.
NumIcons == 2
\* Number of goroutines in the concurrent specification.
NumThreads == 2
\* Number of distinct source file paths in the cache specification.
NumCachePaths == 1
\* Number of distinct source file paths in the create, write, remove specification.
NumCrudPaths == 2
\* The longest document handed to the HTML splitter, in lines.
MaxLines == 3

\* ------------------------------------------------------------------ inputs
PathNames == <<"p1", "p2", "p3", "p4">>
Paths == {PathNames[i] : i \in 1..NumPaths}

IconNames == <<"i1", "i2", "i3", "i4">>
IconFiles == <<"i1.svg", "i2.svg", "i3.svg", "i4.svg">>
IconIds == {IconNames[i] : i \in 1..NumIcons}

Threads == 1..NumThreads

\* Raw icon markup handed to addIcon: bare drawing primitives, a full
\* <svg viewBox=...>...</svg> wrapper, and a wrapper without viewBox between blank lines.
SvgInputs == {<<"<path/>">>,
              <<"<svg", "viewBox=", "0 0 24 24", ">", "<path/>", "</svg>">>,
              <<"\n", "<svg", ">", "<circle/>", "</svg>", "\n">>}

\* What Config.GetSSRClientInitJS can return: (string, error).
InitOutputs == {[out |-> <<>>, err |-> FALSE], [out |-> <<"init">>, err |-> FALSE],
                [out |-> <<"!">>, err |-> FALSE], [out |-> <<>>, err |-> TRUE]}

Events == {"create", "write", "modify", "rename", "remove", "delete"}
Bundles == {"css", "js", "svg", "favicon", "html"}
NoBundle == "none"

Nil == <<>>

\* ------------------------------------------------------------ pure helpers
RECURSIVE FirstIndex(_, _, _)
\* Smallest index i >= from with P[i], 0 when there is none (P: a sequence of BOOLEAN).
FirstIndex(P, from, n) ==
    IF from > n THEN 0
    ELSE IF P[from] THEN from
    ELSE FirstIndex(P, from + 1, n)

\* Mutant of findFileIndex: no entry is ever found.
findFileIndexNever(files, filePath) == 0

\* findFileIndex: the first entry whose path equals filePath.  Go returns a
\* 0-based index and -1 for "not found"; here indices are 1-based and 0 is "not found".
findFileIndex(files, filePath) ==
    FirstIndex([i \in 1..Len(files) |-> files[i].path = filePath], 1, Len(files))

\* Mutant of findContentIndex: the scan keeps the last match instead of stopping at the first.
findContentIndexLast(files, content) ==
    LET S == {i \in 1..Len(files) : files[i].content = content}
    IN IF S = {} THEN 0 ELSE CHOOSE i \in S : \A j \in S : j <= i

\* The content-equality scan of UpdateContent: the first entry whose bytes equal content.
findContentIndex(files, content) ==
    FirstIndex([i \in 1..Len(files) |-> files[i].content = content], 1, Len(files))

\* Mutant of SlicesDelete: the entries after idx go as well.
SlicesDeleteFrom(s, idx) == SubSeq(s, 1, idx - 1)

\* slices.Delete(s, idx, idx+1)
SlicesDelete(s, idx) ==
    [i \in 1..(Len(s) - 1) |-> IF i < idx THEN s[i] ELSE s[i + 1]]

\* Mutant of UpsertContent: the exact-path lookup is skipped.
UpsertContentNoPathMatch(files, filePath, f) ==
    LET i == findContentIndex(files, f.content) IN
    IF i # 0
    THEN [files EXCEPT ![i] = [path |-> filePath, content |-> f.content]]
    ELSE Append(files, f)

\* Mutant of UpsertContent: a new entry goes to the head of the body.
UpsertContentFront(files, filePath, f) ==
    LET idx == findFileIndex(files, filePath) IN
    IF idx # 0
    THEN [files EXCEPT ![idx] = f]
    ELSE LET i == findContentIndex(files, f.content) IN
         IF i # 0
         THEN [files EXCEPT ![i] = [path |-> filePath, content |-> f.content]]
         ELSE <<f>> \o files

\* The create/write/modify branch of UpdateContent, on the body sequence.
UpsertContent(files, filePath, f) ==
    LET idx == findFileIndex(files, filePath) IN
    IF idx # 0
    THEN [files EXCEPT ![idx] = f]
    ELSE LET i == findContentIndex(files, f.content) IN
         IF i # 0
         THEN [files EXCEPT ![i] = [path |-> filePath, content |-> f.content]]
         ELSE Append(files, f)

\* Mutant of RemoveContent: the entry is looked up and left in place.
RemoveContentKeeps(files, filePath) == files

\* The remove/delete branch of UpdateContent, on the body sequence.
RemoveContent(files, filePath) ==
    LET idx == findFileIndex(files, filePath) IN
    IF idx # 0 THEN SlicesDelete(files, idx) ELSE files

\* Mutant of RenameContent: the rename case falls through to the removal.
RenameContentRemoves(files, filePath) == RemoveContent(files, filePath)

\* The rename branch of UpdateContent, on the body sequence: an empty case.
RenameContent(files, filePath) == files

\* The switch of UpdateContent: contentMiddle after the event.
UpdateContentMiddle(files, filePath, event, f) ==
    CASE event \in {"create", "write", "modify"} -> UpsertContent(files, filePath, f)
      [] event = "rename" -> RenameContent(files, filePath)
      [] event \in {"remove", "delete"} -> RemoveContent(files, filePath)
      [] OTHER -> files

RECURSIVE ConcatFiles(_)
\* One loop of WriteContent: every file's content followed by a newline.
ConcatFiles(files) ==
    IF files = <<>> THEN <<>>
    ELSE Head(files).content \o <<"\n">> \o ConcatFiles(Tail(files))

\* stripLeadingUseStrict: drops a leading "use strict" directive.
stripLeadingUseStrict(content) ==
    IF content # <<>> /\ Head(content) = "use strict" THEN Tail(content) ELSE content

\* Mutant of startCodeJS: a failing provider is swallowed and the directive returned.
startCodeJSSwallows(js) ==
    IF js.err THEN [out |-> <<"use strict">>, err |-> FALSE]
    ELSE [out |-> <<"use strict">> \o stripLeadingUseStrict(js.out), err |-> FALSE]

\* Mutant of startCodeJS: the output of the first invocation is kept.
startCodeJSCached(js) == [out |-> <<"use strict", "init">>, err |-> FALSE]

\* startCodeJS: the script bundle's initializer, given what GetSSRClientInitJS returns.
startCodeJS(js) ==
    IF js.err THEN [out |-> <<>>, err |-> TRUE]
    ELSE [out |-> <<"use strict">> \o stripLeadingUseStrict(js.out), err |-> FALSE]

\* h.initCode != nil: only the script bundle has an initializer.
HasInitCode(b) == b = "js"

\* Mutant of WriteContent: the epilogue is written before the body.
WriteContentCloseFirst(h, b, js) ==
    (IF HasInitCode(b) /\ ~startCodeJS(js).err THEN startCodeJS(js).out ELSE <<>>)
    \o ConcatFiles(h.contentOpen) \o ConcatFiles(h.contentClose) \o ConcatFiles(h.contentMiddle)

\* WriteContent: initializer output (when it has one and it does not fail),
\* then contentOpen, contentMiddle, contentClose.
WriteContent(h, b, js) ==
    (IF HasInitCode(b) /\ ~startCodeJS(js).err THEN startCodeJS(js).out ELSE <<>>)
    \o ConcatFiles(h.contentOpen) \o ConcatFiles(h.contentMiddle) \o ConcatFiles(h.contentClose)

\* Whether s holds token x.
HasToken(s, x) == \E i \in 1..Len(s) : s[i] = x

\* Whether x occurs in s as a contiguous run.
Contains(s, x) ==
    \E i \in 0..(Len(s) - Len(x)) : \A j \in 1..Len(x) : s[i + j] = x[j]

IsSpace(tok) == tok = "\n"
NotSpace(tok) == ~IsSpace(tok)

\* Mutant of Minify: the whitespace between units is kept.
MinifyKeepsSpace(mediatype, buf) == buf

\* minifier.Bytes(mediatype, buf): the external minifier.  It rejects a buffer
\* holding a syntax error and otherwise drops the whitespace between units.
MinifyFails(mediatype, buf) == HasToken(buf, "!")
Minify(mediatype, buf) == SelectSeq(buf, NotSpace)

MediaType(b) ==
    CASE b = "css" -> "text/css"
      [] b = "js" -> "text/javascript"
      [] b = "html" -> "text/html"
      [] OTHER -> "image/svg+xml"

ErrMinify == <<"minify">>

\* Mutant of RegenerateAsset: a valid cache is left as it is.
RegenerateAssetIfInvalid(h, b, js) ==
    LET buf == WriteContent(h, b, js) IN
    IF h.cacheValid \/ MinifyFails(MediaType(b), buf) THEN h
    ELSE [h EXCEPT !.cachedMinified = Minify(MediaType(b), buf), !.cacheValid = TRUE]

\* The body of RegenerateCache between Lock and Unlock: the asset afterwards
\* and the error returned.
RegenerateAsset(h, b, js) ==
    LET buf == WriteContent(h, b, js) IN
    IF MinifyFails(MediaType(b), buf) THEN h
    ELSE [h EXCEPT !.cachedMinified = Minify(MediaType(b), buf), !.cacheValid = TRUE]

RegenerateErr(h, b, js) ==
    IF MinifyFails(MediaType(b), WriteContent(h, b, js)) THEN ErrMinify ELSE Nil

\* Mutant of CacheHit: the validity flag is never honoured.
CacheHitNever(h) == FALSE

\* The test `if h.cacheValid` of GetMinifiedContent (under the read lock, and
\* again under the write lock).
CacheHit(h) == h.cacheValid

\* Mutant of InvalidateAsset: the validity flag is left as it is.
InvalidateAssetKeeps(h) == h

\* InvalidateCache
InvalidateAsset(h) == [h EXCEPT !.cacheValid = FALSE]

\* UpdateContent: invalidate, then the switch on the event.
UpdateContentAsset(h, filePath, event, f) ==
    [InvalidateAsset(h) EXCEPT !.contentMiddle = UpdateContentMiddle(h.contentMiddle, filePath, event, f)]

\* The favicon file's name: filepath.Base(filePath) == faviconSvgHandler.fileOutputName.
FaviconPath == "favicon.svg"

\* filepath.Base, for the paths with a directory that the watcher reports;
\* every other path of the model is a bare file name.
PathBase ==
    [p \in {"icons/favicon.svg", "icons/home.svg", "src/Script.js"} |->
        CASE p = "icons/favicon.svg" -> "favicon.svg"
          [] p = "icons/home.svg" -> "home.svg"
          [] p = "src/Script.js" -> "Script.js"]

Base(filePath) == IF filePath \in DOMAIN PathBase THEN PathBase[filePath] ELSE filePath

\* Mutant of BundleOf: an extension outside the switch goes to the scripts.
BundleOfDefault(filePath, extension) ==
    CASE extension = ".css" -> "css"
      [] extension = ".svg" -> IF Base(filePath) = FaviconPath THEN "favicon" ELSE "svg"
      [] extension = ".html" -> "html"
      [] OTHER -> "js"

\* Mutant of BundleOf: the favicon test is skipped.
BundleOfNoFavicon(filePath, extension) ==
    CASE extension = ".css" -> "css"
      [] extension = ".js" -> "js"
      [] extension = ".svg" -> "svg"
      [] extension = ".html" -> "html"
      [] OTHER -> NoBundle

\* The switch of UpdateFileContentInMemory: the bundle an extension selects.
BundleOf(filePath, extension) ==
    CASE extension = ".css" -> "css"
      [] extension = ".js" -> "js"
      [] extension = ".svg" -> IF Base(filePath) = FaviconPath THEN "favicon" ELSE "svg"
      [] extension = ".html" -> "html"
      [] OTHER -> NoBundle

\* The bytes UpdateFileContentInMemory hands to UpdateContent.
StoredContent(extension, content) ==
    IF extension = ".js" THEN stripLeadingUseStrict(content) ELSE content

\* newAssetFile
newAssetFile ==
    [contentOpen |-> <<>>, contentMiddle |-> <<>>, contentClose |-> <<>>,
     cachedMinified |-> <<>>, cacheValid |-> FALSE]

\* NewSvgHandler: the sprite's wrapper tags in contentOpen / contentClose.
NewSvgHandler ==
    [newAssetFile EXCEPT
        !.contentOpen = <<[path |-> "sprite-open.svg", content |-> <<"<svg sprite>", "<defs>">>]>>,
        !.contentClose = <<[path |-> "sprite-close.svg", content |-> <<"</defs>", "</svg>">>]>>]

\* NewHtmlHandler: the default document around the modules.
NewHtmlHandler ==
    [newAssetFile EXCEPT
        !.contentOpen = <<[path |-> "index-open.html",
                           content |-> <<"<!doctype html>", "<html>", "<head>", "<link css>", "</head>", "<body>">>]>>,
        !.contentClose = <<[path |-> "index-close.html",
                            content |-> <<"<script js>", "</body>", "</html>">>]>>]


\* ------------------------------------------------------------------- state
VARIABLES
    assets,             \* AssetMin's five *asset handlers: contentOpen, contentMiddle, contentClose, cachedMinified, cacheValid
    registeredIconIDs,  \* AssetMin.registeredIconIDs
    buildOnDisk,        \* AssetMin.buildOnDisk
    ssrMode,            \* what isSSRMode() returns
    disk,               \* the output file of every bundle
    initJS,             \* what Config.GetSSRClientInitJS returns when called now
    last,               \* the last call: its arguments, what it returned, the bundle before it
    prev,               \* the call before the last, as far as a rename flow or a repeated read needs it
    crud,               \* progress of a create -> write -> remove sequence on one identity
    watch,              \* which of prev and crud the observer keeps in this specification
    pc,                 \* concurrent specification: each goroutine's position
    loc,                \* concurrent specification: each goroutine's locals
    mu,                 \* concurrent specification: asset.mu of every bundle (sync.RWMutex)
    cmu                 \* concurrent specification: AssetMin.mu (sync.Mutex), 0 when free

vars == <<assets, registeredIconIDs, buildOnDisk, ssrMode, disk, initJS, last, prev, crud, watch, pc, loc, mu, cmu>>
progVars == <<assets, registeredIconIDs, buildOnDisk, ssrMode, disk>>
seqVars == <<last, prev, crud, watch>>
concVars == <<pc, loc, mu, cmu>>

NoFile == [exists |-> FALSE, data |-> <<>>]

NoCall ==
    [op |-> "none", b |-> NoBundle, path |-> "", event |-> "", content |-> <<>>,
     val |-> <<>>, err |-> Nil, applied |-> FALSE, minified |-> FALSE, inited |-> FALSE,
     failed |-> FALSE, pre |-> newAssetFile, regPre |-> {}]

NoPrev == [op |-> "none", b |-> NoBundle, path |-> "", val |-> <<>>, err |-> Nil]

CrudIdle == [stage |-> 0, b |-> NoBundle, id |-> "", x |-> <<>>, y |-> <<>>, others |-> <<>>]

IdleLocals == [op |-> "none", path |-> "", event |-> "", content |-> <<>>,
               pending |-> <<>>, viaEvent |-> FALSE]

\* NewAssetMin
InitProgram ==
    /\ assets = [b \in Bundles |->
                    CASE b = "svg" -> NewSvgHandler
                      [] b = "html" -> NewHtmlHandler
                      [] OTHER -> newAssetFile]
    /\ registeredIconIDs = {}
    /\ buildOnDisk = FALSE
    /\ ssrMode = FALSE
    /\ disk = [b \in Bundles |-> NoFile]
    /\ initJS = [out |-> <<"init">>, err |-> FALSE]
    /\ last = NoCall
    /\ prev = NoPrev
    /\ crud = CrudIdle
    /\ pc = [t \in Threads |-> "idle"]
    /\ loc = [t \in Threads |-> IdleLocals]
    /\ mu = [b \in Bundles |-> 0]
    /\ cmu = 0

Init == InitProgram /\ watch = {}

\* ----------------------------------------------------------- observation
\* What the next call's observer keeps of the call that is now the last one:
\* the old path of a rename event, the result of a GetMinifiedContent.
Summary(call) ==
    IF "prev" \notin watch THEN NoPrev ELSE
    [op |-> call.op, b |-> call.b,
     path |-> IF call.applied /\ call.event = "rename" THEN call.path ELSE "",
     val |-> IF call.op = "GetMinifiedContent" THEN call.val ELSE <<>>,
     err |-> IF call.op = "GetMinifiedContent" THEN call.err ELSE Nil]

OtherEntries(files, id) == SelectSeq(files, LAMBDA f : f.path # id)

\* The tracker of a duplicate-content rename after one event that reached
\* UpdateContent: write(id, x), write(y, x) on another path, rename of one of
\* the two (kept in others), create(z, x) on a third path.
DupStep(c, b, filePath, event, content) ==
    CASE event = "write" /\ c.stage = 1 /\ c.b = b /\ c.id # filePath /\ c.x = content ->
            [c EXCEPT !.stage = 2, !.y = <<filePath>>]
      [] event = "rename" /\ c.stage = 2 /\ c.b = b /\ filePath \in {c.id, c.y[1]} ->
            [c EXCEPT !.stage = 3, !.others = <<filePath>>]
      [] event = "create" /\ c.stage = 3 /\ c.b = b /\ filePath \notin {c.id, c.y[1]} /\ c.x = content ->
            [c EXCEPT !.stage = 4, !.others = c.others \o <<filePath>>]
      [] event = "write" /\ ~(c.stage = 1 /\ c.b = b /\ c.id # filePath /\ c.x = content) ->
            [stage |-> 1, b |-> b, id |-> filePath, x |-> content, y |-> <<>>, others |-> <<>>]
      [] OTHER -> CrudIdle

\* The tracker of the files that exist, after one event that reached
\* UpdateContent: others holds, for every identity whose most recent event is
\* a create, write or modify, the bytes of that event.
LatestStep(c, b, filePath, event, content) ==
    LET rest == OtherEntries(c.others, filePath) IN
    CASE event \in {"create", "write", "modify"} ->
            [c EXCEPT !.b = b, !.others = Append(rest, [path |-> filePath, content |-> content])]
      [] event \in {"remove", "delete"} -> [c EXCEPT !.b = b, !.others = rest]
      [] OTHER -> c

\* The create -> write -> remove tracker after one event that reached UpdateContent.
CrudStep(c, b, filePath, event, content, before) ==
    CASE "dup" \in watch -> DupStep(c, b, filePath, event, content)
      [] "latest" \in watch -> LatestStep(c, b, filePath, event, content)
      [] "dup" \notin watch /\ "latest" \notin watch /\ "crud" \notin watch -> CrudIdle
      [] event = "create" ->
            [stage |-> 1, b |-> b, id |-> filePath, x |-> content, y |-> <<>>,
             others |-> OtherEntries(before, filePath)]
      [] event = "write" /\ c.stage = 1 /\ c.b = b /\ c.id = filePath ->
            [c EXCEPT !.stage = 2, !.y = content]
      [] event = "remove" /\ c.stage = 2 /\ c.b = b /\ c.id = filePath ->
            [c EXCEPT !.stage = 3]
      [] OTHER -> CrudIdle

\* Mutant of ProcessedDisk: the file is written whatever the mode.
ProcessedDiskAlways(d, h, b, js, onDisk) ==
    IF RegenerateErr(h, b, js) = Nil
    THEN [exists |-> TRUE, data |-> RegenerateAsset(h, b, js).cachedMinified]
    ELSE d

\* ------------------------------------------------- whole-handler actions
\* processAsset: RegenerateCache, then FileWrite when buildOnDisk.
ProcessedDisk(d, h, b, js, onDisk) ==
    IF onDisk /\ RegenerateErr(h, b, js) = Nil
    THEN [exists |-> TRUE, data |-> RegenerateAsset(h, b, js).cachedMinified]
    ELSE d

\* UpdateFileContentInMemory(filePath, extension, event, content)
UpdateFileContentInMemory(filePath, extension, event, content) ==
    LET b == BundleOf(filePath, extension)
        f == [path |-> filePath, content |-> StoredContent(extension, content)]
    IN
    /\ IF b = NoBundle
       THEN /\ UNCHANGED <<assets, crud>>
            /\ last' = [NoCall EXCEPT !.op = "UpdateFileContentInMemory", !.path = filePath,
                            !.event = event, !.err = <<"extension not found">>,
                            !.regPre = registeredIconIDs]
       ELSE /\ assets' = [assets EXCEPT ![b] = UpdateContentAsset(assets[b], filePath, event, f)]
            /\ crud' = CrudStep(crud, b, filePath, event, f.content, assets[b].contentMiddle)
            /\ last' = [NoCall EXCEPT !.op = "UpdateFileContentInMemory", !.b = b, !.path = filePath,
                            !.event = event, !.content = f.content, !.applied = TRUE,
                            !.pre = assets[b], !.regPre = registeredIconIDs]
    /\ prev' = Summary(last)
    /\ UNCHANGED watch
    /\ UNCHANGED <<registeredIconIDs, buildOnDisk, ssrMode, disk, initJS>>
    /\ UNCHANGED concVars

\* The five bundles' outputPath: filepath.Join(OutputDir, outputName).
OutputPaths == {"out/style.css", "out/script.js", "out/sprite.svg", "out/favicon.svg", "out/index.html"}

\* filepath.Clean, on the spellings that occur: doubled separators and "."
\* elements go.
Clean(filePath) ==
    CASE filePath = "out//style.css" -> "out/style.css"
      [] filePath = "out/./Sprite.svg" -> "out/Sprite.svg"
      [] OTHER -> filePath

\* strings.ToLower, on the spellings that occur.
ToLowerPath(filePath) ==
    CASE filePath = "out/SCRIPT.JS" -> "out/script.js"
      [] filePath = "out/Sprite.svg" -> "out/sprite.svg"
      [] filePath = "src/Script.js" -> "src/script.js"
      [] OTHER -> filePath

\* Mutant of isOutputPath: the paths are compared as they are spelled.
isOutputPathExact(filePath) == filePath \in OutputPaths

\* isOutputPath: the cleaned path equals a cleaned output path, as spelled or
\* in lower case.
isOutputPath(filePath) ==
    \/ Clean(filePath) \in {Clean(o) : o \in OutputPaths}
    \/ ToLowerPath(Clean(filePath)) \in {ToLowerPath(Clean(o)) : o \in OutputPaths}

\* What onSSRCompile can return.
SSRResults == {Nil, <<"ssr compile">>}

\* Mutant of EarlyReturn: the output-path guard comes before the delegation.
EarlyReturnOutputFirst(mode, filePath) ==
    IF isOutputPath(filePath) THEN "output" ELSE IF mode THEN "ssr" ELSE "none"

\* The two early returns at the head of NewFileEvent, in their order: the
\* delegation in SSR mode, then the guard on output paths.
EarlyReturn(mode, filePath) ==
    IF mode THEN "ssr" ELSE IF isOutputPath(filePath) THEN "output" ELSE "none"

\* NewFileEvent(fileName, extension, filePath, event); readable and content are
\* what os.ReadFile(filePath) gives at that moment.
NewFileEvent(extension, filePath, event, readable, content) ==
    LET b == BundleOf(filePath, extension)
        read == IF event \in {"remove", "delete"} THEN <<>> ELSE content
        f == [path |-> filePath, content |-> StoredContent(extension, read)]
        call == [NoCall EXCEPT !.op = "NewFileEvent", !.path = filePath, !.event = event,
                               !.regPre = registeredIconIDs]
    IN
    /\ prev' = Summary(last)
    /\ UNCHANGED watch
    /\ UNCHANGED <<registeredIconIDs, buildOnDisk, ssrMode, initJS>>
    /\ UNCHANGED concVars
    /\ IF EarlyReturn(ssrMode, filePath) = "ssr"
       THEN /\ \E r \in SSRResults :
                  last' = [call EXCEPT !.val = <<"onSSRCompile">> \o r, !.err = r]
            /\ UNCHANGED <<assets, disk, crud>>
       ELSE IF EarlyReturn(ssrMode, filePath) = "output"
       THEN /\ last' = call
            /\ UNCHANGED <<assets, disk, crud>>
       ELSE IF filePath = ""
       THEN /\ last' = [call EXCEPT !.err = <<"filePath is empty">>]
            /\ UNCHANGED <<assets, disk, crud>>
       ELSE IF event \notin {"remove", "delete"} /\ ~readable
       THEN /\ last' = [call EXCEPT !.err = <<"read">>]
            /\ UNCHANGED <<assets, disk, crud>>
       ELSE IF b = NoBundle
       THEN /\ last' = [call EXCEPT !.err = <<"extension not found">>]
            /\ UNCHANGED <<assets, disk, crud>>
       ELSE LET h == UpdateContentAsset(assets[b], filePath, event, f)
                err == RegenerateErr(h, b, initJS)
            IN
            /\ assets' = [assets EXCEPT ![b] = RegenerateAsset(h, b, initJS)]
            /\ disk' = [disk EXCEPT ![b] = ProcessedDisk(disk[b], h, b, initJS, buildOnDisk)]
            /\ crud' = CrudStep(crud, b, filePath, event, f.content, assets[b].contentMiddle)
            /\ last' = [call EXCEPT !.b = b, !.content = f.content, !.applied = TRUE,
                            !.err = err, !.failed = (err # Nil),
                            !.minified = TRUE, !.inited = HasInitCode(b), !.pre = assets[b]]

\* asset.GetMinifiedContent(minifier), by a single caller.
GetMinifiedContent(b) ==
    LET h == assets[b]
        call == [NoCall EXCEPT !.op = "GetMinifiedContent", !.b = b, !.pre = h,
                               !.regPre = registeredIconIDs]
    IN
    /\ prev' = Summary(last)
    /\ UNCHANGED watch
    /\ UNCHANGED <<registeredIconIDs, buildOnDisk, ssrMode, disk, initJS, crud>>
    /\ UNCHANGED concVars
    /\ IF CacheHit(h)
       THEN /\ last' = [call EXCEPT !.val = h.cachedMinified]
            /\ UNCHANGED assets
       ELSE /\ assets' = [assets EXCEPT ![b] = RegenerateAsset(h, b, initJS)]
            /\ last' = [call EXCEPT !.val = IF RegenerateErr(h, b, initJS) = Nil
                                             THEN RegenerateAsset(h, b, initJS).cachedMinified
                                             ELSE <<>>,
                            !.err = RegenerateErr(h, b, initJS),
                            !.failed = (RegenerateErr(h, b, initJS) # Nil),
                            !.minified = TRUE, !.inited = HasInitCode(b)]

\* asset.RegenerateCache(minifier), by a single caller.
RegenerateCache(b) ==
    LET h == assets[b] IN
    /\ assets' = [assets EXCEPT ![b] = RegenerateAsset(h, b, initJS)]
    /\ last' = [NoCall EXCEPT !.op = "RegenerateCache", !.b = b, !.pre = h,
                    !.regPre = registeredIconIDs,
                    !.err = RegenerateErr(h, b, initJS),
                    !.failed = (RegenerateErr(h, b, initJS) # Nil),
                    !.minified = TRUE, !.inited = HasInitCode(b)]
    /\ prev' = Summary(last)
    /\ UNCHANGED watch
    /\ UNCHANGED <<registeredIconIDs, buildOnDisk, ssrMode, disk, initJS, crud>>
    /\ UNCHANGED concVars

\* asset.InvalidateCache()
InvalidateCache(b) ==
    /\ assets' = [assets EXCEPT ![b] = InvalidateAsset(assets[b])]
    /\ last' = [NoCall EXCEPT !.op = "InvalidateCache", !.b = b, !.pre = assets[b],
                    !.regPre = registeredIconIDs]
    /\ prev' = Summary(last)
    /\ UNCHANGED watch
    /\ UNCHANGED <<registeredIconIDs, buildOnDisk, ssrMode, disk, initJS, crud>>
    /\ UNCHANGED concVars

\* Mutant of RefreshTarget: the empty ".svg" case selects the sprite bundle.
RefreshTargetSprite(extension) ==
    CASE extension = ".js" -> "js"
      [] extension = ".css" -> "css"
      [] extension = ".svg" -> "svg"
      [] OTHER -> NoBundle

\* The switch of RefreshAsset: the bundle it regenerates, if any.
RefreshTarget(extension) ==
    CASE extension = ".js" -> "js"
      [] extension = ".css" -> "css"
      [] OTHER -> NoBundle

\* AssetMin.RefreshAsset(extension): processAsset on the bundle; an error is
\* logged, the method returns nothing.
RefreshAsset(extension) ==
    LET b == RefreshTarget(extension) IN
    /\ prev' = Summary(last)
    /\ UNCHANGED watch
    /\ UNCHANGED <<registeredIconIDs, buildOnDisk, ssrMode, initJS, crud>>
    /\ UNCHANGED concVars
    /\ IF b = NoBundle
       THEN /\ last' = [NoCall EXCEPT !.op = "RefreshAsset", !.path = extension,
                            !.regPre = registeredIconIDs]
            /\ UNCHANGED <<assets, disk>>
       ELSE /\ assets' = [assets EXCEPT ![b] = RegenerateAsset(assets[b], b, initJS)]
            /\ disk' = [disk EXCEPT ![b] = ProcessedDisk(disk[b], assets[b], b, initJS, buildOnDisk)]
            /\ last' = [NoCall EXCEPT !.op = "RefreshAsset", !.b = b, !.path = extension,
                            !.pre = assets[b], !.regPre = registeredIconIDs,
                            !.failed = (RegenerateErr(assets[b], b, initJS) # Nil),
                            !.minified = TRUE, !.inited = HasInitCode(b)]

\* AssetMin.SetBuildOnDisk(onDisk): the mode is stored; when it is true,
\* processAsset runs on all five bundles and its errors are dropped.
SetBuildOnDisk(onDisk) ==
    /\ buildOnDisk' = onDisk
    /\ IF onDisk
       THEN /\ assets' = [b \in Bundles |-> RegenerateAsset(assets[b], b, initJS)]
            /\ disk' = [b \in Bundles |-> ProcessedDisk(disk[b], assets[b], b, initJS, TRUE)]
       ELSE UNCHANGED <<assets, disk>>
    /\ last' = [NoCall EXCEPT !.op = "SetBuildOnDisk", !.applied = onDisk,
                    !.failed = onDisk /\ (\E b \in Bundles : RegenerateErr(assets[b], b, initJS) # Nil),
                    !.minified = onDisk, !.inited = onDisk,
                    !.pre = assets["js"], !.regPre = registeredIconIDs]
    /\ prev' = Summary(last)
    /\ UNCHANGED <<registeredIconIDs, ssrMode, initJS, crud, watch>>
    /\ UNCHANGED concVars

\* Mutant of FileWriteSafe: an existing file is written over.
FileWriteSafeOverwrites(d, data) == [exists |-> TRUE, data |-> data]

\* FileWriteSafe: os.Stat finds the file and nothing is written, or the file
\* does not exist and FileWrite creates it.
FileWriteSafe(d, data) ==
    IF d.exists THEN d ELSE [exists |-> TRUE, data |-> data]

\* processAssetSafe: RegenerateCache, then FileWriteSafe when buildOnDisk.
processAssetSafe(d, h, b, js, onDisk) ==
    IF RegenerateErr(h, b, js) = Nil /\ onDisk
    THEN FileWriteSafe(d, RegenerateAsset(h, b, js).cachedMinified)
    ELSE d

\* AssetMin.SetExternalSSRCompiler(fn, onDisk): the callback and the disk mode
\* are stored, SSR mode is active from then on, every bundle goes through
\* processAssetSafe and the callback is invoked at once, returning r.
SetExternalSSRCompiler(r, onDisk) ==
    /\ buildOnDisk' = onDisk
    /\ ssrMode' = TRUE
    /\ assets' = [b \in Bundles |-> RegenerateAsset(assets[b], b, initJS)]
    /\ disk' = [b \in Bundles |-> processAssetSafe(disk[b], assets[b], b, initJS, onDisk)]
    /\ last' = [NoCall EXCEPT !.op = "SetExternalSSRCompiler", !.applied = onDisk,
                    !.val = <<"onSSRCompile">> \o r, !.err = r,
                    !.failed = \E b \in Bundles : RegenerateErr(assets[b], b, initJS) # Nil,
                    !.minified = TRUE, !.inited = TRUE,
                    !.pre = assets["js"], !.regPre = registeredIconIDs]
    /\ prev' = Summary(last)
    /\ UNCHANGED <<registeredIconIDs, initJS, crud, watch>>
    /\ UNCHANGED concVars

\* The environment: isSSRMode() starts returning something else (the project's
\* go.mod gains or loses the dependency).
SetSSRMode(mode) ==
    /\ mode # ssrMode
    /\ ssrMode' = mode
    /\ UNCHANGED <<assets, registeredIconIDs, buildOnDisk, disk, initJS, seqVars, concVars>>

\* The environment: the initializer's provider starts returning something else.
SetInitJS(js) ==
    /\ js # initJS
    /\ initJS' = js
    /\ UNCHANGED <<progVars, seqVars, concVars>>

\* -------------------------------------------- specification: file events
\* File events on the script bundle, delivered one at a time, and reads.
SpecContents == {<<"a">>, <<"b">>}

Removals == {"remove", "delete"}

FileEvent ==
    \E p \in Paths :
        \/ \E e \in Events \ Removals, c \in SpecContents : NewFileEvent(".js", p, e, TRUE, c)
        \/ \E e \in Events \ Removals : NewFileEvent(".js", p, e, FALSE, <<>>)
        \/ \E e \in Removals : NewFileEvent(".js", p, e, FALSE, <<>>)

ReadScript == GetMinifiedContent("js")

Next == FileEvent \/ ReadScript

Spec == Init /\ [][Next]_vars

\* Rename flows: create, write, rename and remove events, with the observer
\* keeping the call before the last.
InitFlow == InitProgram /\ watch = {"prev"}
FlowEvents == {"create", "write", "rename"}

FlowEvent ==
    \E p \in Paths :
        \/ \E e \in FlowEvents, c \in SpecContents : NewFileEvent(".js", p, e, TRUE, c)
        \/ NewFileEvent(".js", p, "remove", FALSE, <<>>)

NextFlow == FlowEvent
SpecFlow == InitFlow /\ [][NextFlow]_vars

\* Create, write and remove events and reads, with the observer tracking
\* create -> write -> remove sequences.
CrudContents == {<<"a">>, <<"b">>, <<"c">>}

CrudEvents == {"create", "write"}
CrudPaths == {PathNames[i] : i \in 1..NumCrudPaths}

CrudEvent ==
    \E p \in CrudPaths :
        \/ \E e \in CrudEvents, c \in CrudContents : NewFileEvent(".js", p, e, TRUE, c)
        \/ NewFileEvent(".js", p, "remove", FALSE, <<>>)

NextCrud == CrudEvent \/ ReadScript
InitCrud == InitProgram /\ watch = {"crud"}
SpecCrud == InitCrud /\ [][NextCrud]_vars


\* ------------------------------------------------------ claims: file events
CountPath(files, p) == Cardinality({i \in 1..Len(files) : files[i].path = p})
CountContent(files, c) == Cardinality({i \in 1..Len(files) : files[i].content = c})
Body(b) == assets[b].contentMiddle
Upserting(call) == call.applied /\ call.event \in {"create", "write", "modify"}

\* C3 (dedup): after a create, write or modify event the body holds exactly one
\* entry for the event's identity, and that entry's bytes are the event's bytes;
\* by induction this holds after every sequence of such events on one identity.
C3_Dedup ==
    Upserting(last) =>
        /\ CountPath(Body(last.b), last.path) = 1
        /\ Body(last.b)[findFileIndex(Body(last.b), last.path)].content = last.content

\* C3 witness: a write on an identity that was already in the body with other
\* bytes, beside another entry.
C3_Witness ==
    /\ Upserting(last)
    /\ Len(Body(last.b)) >= 2
    /\ \E i \in 1..Len(last.pre.contentMiddle) :
          /\ last.pre.contentMiddle[i].path = last.path
          /\ last.pre.contentMiddle[i].content # last.content

CrudBytesUnshared ==
    \A i \in 1..Len(crud.others) : crud.others[i].content \notin {crud.x, crud.y}

RenameFlow ==
    /\ prev.path # ""
    /\ prev.b = last.b
    /\ last.applied
    /\ last.event \in {"create", "write"}
    /\ last.path # prev.path
    /\ findFileIndex(last.pre.contentMiddle, prev.path) # 0
    /\ findFileIndex(last.pre.contentMiddle, last.path) = 0

OldContent == last.pre.contentMiddle[findFileIndex(last.pre.contentMiddle, prev.path)].content

\* C6 (rename as delete + create): after a rename event for the old path and a
\* create or write event for the new path, the old path's entry is gone and the
\* new path's entry holds the new content, whether or not the content changed.
C6_RenameReplaces ==
    RenameFlow =>
        /\ findFileIndex(Body(last.b), prev.path) = 0
        /\ findFileIndex(Body(last.b), last.path) # 0
        /\ Body(last.b)[findFileIndex(Body(last.b), last.path)].content = last.content

CachePaths == {PathNames[i] : i \in 1..NumCachePaths}

\* File contents in the cache specification: a well-formed unit and one the
\* minifier rejects ("!" is a syntax error for every media type).
CacheContents == {<<"a">>, <<"!">>}

CacheFileEvent ==
    \E p \in CachePaths :
        \/ \E c \in CacheContents : NewFileEvent(".js", p, "write", TRUE, c)
        \/ NewFileEvent(".js", p, "remove", FALSE, <<>>)

CacheMemoryEvent ==
    \E p \in CachePaths :
        \/ \E c \in CacheContents : UpdateFileContentInMemory(p, ".js", "write", c)
        \/ UpdateFileContentInMemory(p, ".js", "remove", <<>>)

CacheRead == GetMinifiedContent("js")
CacheRegenerate == RegenerateCache("js")
CacheInvalidate == InvalidateCache("js")
CacheRefresh == RefreshAsset(".js")
InitializerChanges == \E js \in InitOutputs : SetInitJS(js)

NextCache ==
    \/ CacheFileEvent
    \/ CacheMemoryEvent
    \/ CacheRead
    \/ CacheRegenerate
    \/ CacheInvalidate
    \/ CacheRefresh
    \/ InitializerChanges

InitCache == InitProgram /\ watch = {"prev"}
SpecCache == InitCache /\ [][NextCache]_vars

\* ----------------------------------------------------- claims: the cache
\* C8 (minification failure): whenever the minifier fails inside
\* GetMinifiedContent, RegenerateCache, NewFileEvent or RefreshAsset, the call
\* returns the error and cacheValid is false afterwards.
C8_FailureLeavesInvalid ==
    last.failed => (last.err # Nil /\ ~assets[last.b].cacheValid)

TwoReads ==
    /\ last.op = "GetMinifiedContent"
    /\ prev.op = "GetMinifiedContent"
    /\ prev.b = last.b

\* C9 as stated (idempotent cache): of two GetMinifiedContent calls on a bundle
\* with no call between them, the second returns the bytes the first returned
\* and invokes neither the minifier nor the initializer.
C9_IdempotentAsStated ==
    TwoReads =>
        /\ last.val = prev.val
        /\ ~last.minified
        /\ ~last.inited

\* C9 as amended: the same, when the first of the two calls returned no error.
C9_Idempotent ==
    (TwoReads /\ prev.err = Nil) =>
        /\ last.val = prev.val
        /\ last.err = Nil
        /\ ~last.minified
        /\ ~last.inited

\* C9 witness: a second read of a non-empty bundle, after the initializer's
\* provider has changed what it returns since the first read built the cache.
C9_Witness ==
    /\ TwoReads
    /\ prev.err = Nil
    /\ Body(last.b) # <<>>
    /\ last.val # <<>>
    /\ last.val # Minify(MediaType(last.b), WriteContent(assets[last.b], last.b, initJS))

\* -------------------------------------------- specification: the initializer
\* The script bundle under every operation that regenerates it, while the
\* initializer's provider changes what it returns.
FreshFileEvent ==
    \E p \in CachePaths :
        \/ NewFileEvent(".js", p, "write", TRUE, <<"a">>)
        \/ NewFileEvent(".js", p, "remove", FALSE, <<>>)

BuildOnDiskChanges == \E onDisk \in BOOLEAN : SetBuildOnDisk(onDisk)

NextFresh ==
    \/ FreshFileEvent
    \/ CacheRead
    \/ CacheRegenerate
    \/ CacheInvalidate
    \/ CacheRefresh
    \/ BuildOnDiskChanges
    \/ InitializerChanges

SpecFresh == Init /\ [][NextFresh]_vars

\* ------------------------------------------------- claims: the initializer
\* The call that is now the last one regenerated the script bundle and stored
\* a snapshot.
RegeneratedScript(call, h) ==
    /\ call.minified
    /\ call.b = "js" \/ call.op = "SetBuildOnDisk"
    /\ ~MinifyFails("text/javascript", WriteContent(h, "js", initJS))

\* What the initializer yields when GetSSRClientInitJS returns js: the strict
\* directive and js, or nothing when js is an error.
InitializerOutput(js) == IF js.err THEN <<>> ELSE <<"use strict">> \o js.out

\* C15 (fresh initializer): every step that regenerates the script bundle
\* (NewFileEvent, RefreshAsset, SetBuildOnDisk(true), RegenerateCache, and a
\* GetMinifiedContent that finds the cache invalid) invokes the initializer, and
\* the snapshot it stores is the minified output of that invocation followed by
\* the bundle's files: no output of an earlier invocation remains.
C15_FreshInitializer ==
    [][(last' # last /\ RegeneratedScript(last', assets'["js"]))
          => /\ last'.inited
             /\ assets'["js"].cacheValid
             /\ assets'["js"].cachedMinified =
                   Minify("text/javascript", InitializerOutput(initJS))
                      \o Minify("text/javascript", ConcatFiles(assets'["js"].contentMiddle))]_vars

C15_Witness ==
    /\ last.op \in {"RefreshAsset", "SetBuildOnDisk", "NewFileEvent", "GetMinifiedContent"}
    /\ last.minified
    /\ HasToken(last.pre.cachedMinified, "init")
    /\ initJS = [out |-> <<>>, err |-> FALSE]
    /\ assets["js"].cacheValid
    /\ assets["js"].cachedMinified = <<"use strict">> \o Minify("text/javascript", ConcatFiles(Body("js")))

\* C34 (failing initializer): when the initializer returns an error, a
\* regeneration of the script bundle does not fail: the snapshot is the
\* minification of prologue, body and epilogue alone, without the initializer
\* output and without the "use strict" prefix, the cache is valid and the
\* call returns no error.
C34_FailingInitializer ==
    [][(/\ last' # last
        /\ last'.minified
        /\ last'.b = "js" \/ last'.op = "SetBuildOnDisk"
        /\ initJS.err)
          => /\ last'.err = Nil
             /\ ~last'.failed
             /\ assets'["js"].cacheValid
             /\ assets'["js"].cachedMinified =
                   Minify("text/javascript",
                          ConcatFiles(assets'["js"].contentOpen)
                             \o ConcatFiles(assets'["js"].contentMiddle)
                             \o ConcatFiles(assets'["js"].contentClose))
             /\ ~HasToken(assets'["js"].cachedMinified, "use strict")]_vars

\* C34 witness: a file event regenerated the script bundle while the provider
\* returned an error; the snapshot before held the initializer's output, the
\* one after holds the file alone.
C34_Witness ==
    /\ last.op = "NewFileEvent"
    /\ initJS.err
    /\ last.err = Nil
    /\ HasToken(last.pre.cachedMinified, "init")
    /\ assets["js"].cacheValid
    /\ assets["js"].cachedMinified = <<"a">>

\* ------------------------------------------------------- the sprite engine
\* id + ".svg"
IconFile(id) == IconFiles[CHOOSE i \in 1..Len(IconNames) : IconNames[i] = id]

\* strings.TrimSpace, on tokens.
RECURSIVE TrimLeft(_)
TrimLeft(s) == IF s # <<>> /\ IsSpace(Head(s)) THEN TrimLeft(Tail(s)) ELSE s

RECURSIVE TrimRight(_)
TrimRight(s) ==
    IF s # <<>> /\ IsSpace(s[Len(s)]) THEN TrimRight(SubSeq(s, 1, Len(s) - 1)) ELSE s

TrimSpace(s) == TrimRight(TrimLeft(s))

\* strings.Index(s, tok): the first position of tok, 0 when absent.
IndexOf(s, tok) == FirstIndex([i \in 1..Len(s) |-> s[i] = tok], 1, Len(s))

DefaultViewBox == "0 0 16 16"

\* The decoder loop of addIcon: the first start element decides; when it is
\* <svg>, its viewBox attribute (the token after "viewBox=" inside the opening
\* tag) replaces the default.
ViewBoxOf(svgContent) ==
    LET t == TrimLeft(svgContent)
        endOpen == IndexOf(t, ">")
        at == IndexOf(t, "viewBox=")
    IN IF t # <<>> /\ Head(t) = "<svg" /\ at # 0 /\ at < endOpen
       THEN t[at + 1]
       ELSE DefaultViewBox

\* Mutant of ContentToWrap: the outer wrapper is kept.
ContentToWrapKeeps(svgContent) == svgContent

\* The stripping of addIcon: the content between the outer <svg ...> and </svg>.
ContentToWrap(svgContent) ==
    LET trimmed == TrimSpace(svgContent)
        endOpen == IndexOf(trimmed, ">")
    IN IF trimmed # <<>> /\ Head(trimmed) = "<svg" /\ trimmed[Len(trimmed)] = "</svg>" /\ endOpen # 0
       THEN SubSeq(trimmed, endOpen + 1, Len(trimmed) - 1)
       ELSE svgContent

\* <symbol id="ID" viewBox="VB">...</symbol>
SymbolContent(id, svgContent) ==
    <<"<symbol", id, ViewBoxOf(svgContent), ">">> \o ContentToWrap(svgContent) \o <<"</symbol>">>

\* asset.AddContentMiddle(name, content): under the bundle's lock, a new entry
\* at the tail of the body and the cache invalid.
AddContentMiddle(h, name, content) ==
    [h EXCEPT !.contentMiddle = Append(h.contentMiddle, [path |-> name, content |-> content]),
              !.cacheValid = FALSE]

\* Mutant of IconCollides: the collision check never fires.
IconCollidesNever(reg, id) == FALSE

\* The collision check of addIcon: c.registeredIconIDs[id].
IconCollides(reg, id) == id \in reg

ErrIconRegistered(id) == <<"icon already registered: ", id>>

\* Mutant of addIconRegistry: the lazily initialised map is made anew on every call.
addIconRegistryFresh(reg, id) == {id}

\* addIcon(id, svgContent): the error it returns, the registry and the sprite
\* bundle afterwards.
addIconErr(reg, id) == IF IconCollides(reg, id) THEN ErrIconRegistered(id) ELSE Nil

addIconRegistry(reg, id) == IF IconCollides(reg, id) THEN reg ELSE reg \cup {id}

addIconAsset(h, reg, id, svgContent) ==
    IF IconCollides(reg, id) THEN h
    ELSE AddContentMiddle(h, IconFile(id), SymbolContent(id, svgContent))

\* AssetMin.InjectSpriteIcon(id, svg): addIcon under AssetMin.mu.
InjectSpriteIcon(id, svg) ==
    /\ assets' = [assets EXCEPT !["svg"] = addIconAsset(assets["svg"], registeredIconIDs, id, svg)]
    /\ registeredIconIDs' = addIconRegistry(registeredIconIDs, id)
    /\ last' = [NoCall EXCEPT !.op = "InjectSpriteIcon", !.b = "svg", !.path = id, !.content = svg,
                    !.err = addIconErr(registeredIconIDs, id),
                    !.pre = assets["svg"], !.regPre = registeredIconIDs]
    /\ prev' = Summary(last)
    /\ UNCHANGED watch
    /\ UNCHANGED <<buildOnDisk, ssrMode, disk, initJS, crud>>
    /\ UNCHANGED concVars

\* ------------------------------------------------ specification: the sprite
\* Icon registrations, icon file events and reads of the sprite bundle.
RegisterIcon == \E id \in IconIds, svg \in SvgInputs : InjectSpriteIcon(id, svg)

IconFileEvent ==
    \E id \in IconIds :
        \/ NewFileEvent(".svg", IconFile(id), "write", TRUE, <<"<circle/>">>)
        \/ NewFileEvent(".svg", IconFile(id), "remove", FALSE, <<>>)

ReadSprite == GetMinifiedContent("svg")

NextSprite == RegisterIcon \/ IconFileEvent \/ ReadSprite

SpecSprite == Init /\ [][NextSprite]_vars

\* ---------------------------------------------------- claims: the sprite
Colliding(call) == call.op = "InjectSpriteIcon" /\ call.path \in call.regPre

\* C10 (icon collision): registering an id that is already in the registry
\* returns "icon already registered: <id>" and leaves the registry, the sprite's
\* body sequence and the sprite's cache validity as they were.
C10_IconCollision ==
    Colliding(last) =>
        /\ last.err = ErrIconRegistered(last.path)
        /\ registeredIconIDs = last.regPre
        /\ Body("svg") = last.pre.contentMiddle
        /\ assets["svg"].cacheValid = last.pre.cacheValid

\* C10 witness: a second registration of an id, with markup other than the
\* registered one, on a sprite whose cache was valid.
C10_Witness ==
    /\ Colliding(last)
    /\ last.pre.cacheValid
    /\ \E i \in 1..Len(Body("svg")) :
          /\ Body("svg")[i].path = IconFile(last.path)
          /\ Body("svg")[i].content # SymbolContent(last.path, last.content)
    /\ Cardinality(registeredIconIDs) >= 2

\* C11 (monotonic registry): no step removes an id from the icon registry, and
\* a registration of an id that is in the registry fails, also after a remove
\* event deleted the icon's "<id>.svg" entry from the sprite body.
C11_RegistryMonotonic ==
    [][/\ registeredIconIDs \subseteq registeredIconIDs'
       /\ (last'.op = "InjectSpriteIcon" /\ last'.path \in registeredIconIDs)
             => (last'.err # Nil /\ registeredIconIDs' = registeredIconIDs)]_vars

\* C11 witness: a registration fails for an id whose symbol entry a remove
\* event has deleted from the sprite body, while another id is registered too.
C11_Witness ==
    /\ Colliding(last)
    /\ last.err # Nil
    /\ findFileIndex(Body("svg"), IconFile(last.path)) = 0
    /\ Cardinality(registeredIconIDs) >= 2

\* ------------------------------------ specification: wrapped icons
\* Registrations of icons that arrive as complete <svg>...</svg> files, and
\* reads of the sprite.
WrappedSvgInputs ==
    {<<"<svg", "viewBox=", "0 0 24 24", ">", "<path/>", "</svg>">>,
     <<"\n", "<svg", ">", "<circle/>", "</svg>", "\n">>,
     <<"<svg", "viewBox=", "0 0 8 8", ">", "<g>", "<rect/>", "</g>", "</svg>">>}

RegisterWrapped == \E id \in IconIds, svg \in WrappedSvgInputs : InjectSpriteIcon(id, svg)

NextWrapped == RegisterWrapped \/ ReadSprite

SpecWrapped == Init /\ [][NextWrapped]_vars

\* ------------------------------------------------ claims: wrapped icons
\* strings.Count(sprite, "<svg"): the opening tags of svg elements, the
\* bundle's own wrapper included.
CountSvg(s) == Cardinality({i \in 1..Len(s) : s[i] \in {"<svg", "<svg sprite>"}})

CountSymbol(s) == Cardinality({i \in 1..Len(s) : s[i] = "<symbol"})

\* C14 (sprite nesting guard): with every registered icon given as a full
\* <svg>...</svg> wrapper, no body entry holds an <svg opening tag, and the
\* assembled sprite holds exactly one <svg opening tag and exactly one <symbol
\* per registered icon.
C14_NestingGuard ==
    /\ \A i \in 1..Len(Body("svg")) :
          /\ CountSvg(Body("svg")[i].content) = 0
          /\ CountSymbol(Body("svg")[i].content) = 1
    /\ assets["svg"].cacheValid =>
          /\ CountSvg(assets["svg"].cachedMinified) = 1
          /\ CountSymbol(assets["svg"].cachedMinified) = Cardinality(registeredIconIDs)

C14_Witness ==
    /\ last.op = "GetMinifiedContent"
    /\ last.b = "svg"
    /\ assets["svg"].cacheValid
    /\ Cardinality(registeredIconIDs) >= 2
    /\ CountSymbol(last.val) = 2

\* ------------------------------------------ specification: the HTML bundle
\* File events on .html files and reads of the HTML bundle: an ordinary
\* fragment, and a complete document between blank lines.
HtmlFragment == <<"<div>module</div>">>
HtmlDocument == <<"\n", "<!doctype html>", "<html>", "<body>", "<h1>Template</h1>", "</body>", "</html>", "\n">>
HtmlContents == {HtmlFragment, HtmlDocument}
HtmlEvents == {"create", "write"}

HtmlFileEvent ==
    \E p \in Paths :
        \/ \E e \in HtmlEvents, c \in HtmlContents : NewFileEvent(".html", p, e, TRUE, c)
        \/ NewFileEvent(".html", p, "remove", FALSE, <<>>)

ReadHtml == GetMinifiedContent("html")

NextHtml == HtmlFileEvent \/ ReadHtml

SpecHtml == Init /\ [][NextHtml]_vars

\* ------------------------------------------------ claims: the HTML bundle
CountToken(s, tok) == Cardinality({i \in 1..Len(s) : s[i] = tok})

\* A complete document: trimmed, it starts with a doctype declaration and ends
\* with a closing </html> tag.
IsFullDocument(content) ==
    LET t == TrimSpace(content)
    IN t # <<>> /\ Head(t) = "<!doctype html>" /\ t[Len(t)] = "</html>"

\* C12 (full-document rejection): a create or write event on the HTML bundle
\* whose content is a complete document returns no error and adds nothing to the
\* body; no body entry is a complete document, and the assembled document has
\* exactly one doctype, one <html>, one </body> and one </html>.
C12_FullDocumentRejected ==
    /\ (last.b = "html" /\ Upserting(last) /\ IsFullDocument(last.content))
          => (last.err = Nil /\ Body("html") = last.pre.contentMiddle)
    /\ \A i \in 1..Len(Body("html")) : ~IsFullDocument(Body("html")[i].content)
    /\ assets["html"].cacheValid =>
          \A tag \in {"<!doctype html>", "<html>", "</body>", "</html>"} :
              CountToken(assets["html"].cachedMinified, tag) = 1

\* ------------------------------------- specification: concatenation order
\* File events on the script bundle (an initializer, no prologue) and on the
\* HTML bundle (prologue and epilogue, no initializer), and reads of both.
OrderContents == {<<"a">>, <<"b">>}
OrderExtensions == {".js", ".html"}
OrderEvents == {"create", "write", "rename"}

OrderFileEvent ==
    \E p \in CrudPaths, x \in OrderExtensions :
        \/ \E e \in OrderEvents, c \in OrderContents : NewFileEvent(x, p, e, TRUE, c)
        \/ NewFileEvent(x, p, "remove", FALSE, <<>>)

OrderRead == \E b \in {"js", "html"} : GetMinifiedContent(b)

NextOrder == OrderFileEvent \/ OrderRead

SpecOrder == Init /\ [][NextOrder]_vars

\* ------------------------------------------ claims: concatenation order
RECURSIVE ContentsOf(_)
\* The entries' contents one after the other.
ContentsOf(files) ==
    IF files = <<>> THEN <<>> ELSE Head(files).content \o ContentsOf(Tail(files))

\* The units of a snapshot in the order the claim prescribes.
OrderedUnits(h, b) ==
    (IF b = "js" THEN <<"use strict">> \o initJS.out ELSE <<>>)
    \o ContentsOf(h.contentOpen) \o ContentsOf(h.contentMiddle) \o ContentsOf(h.contentClose)

\* post is pre with the event's entry replaced or relocated where it was, or
\* appended at the tail.
KeepsOrderUpsert(pre, post, path, content) ==
    /\ Len(post) \in {Len(pre), Len(pre) + 1}
    /\ \A i \in 1..Len(pre) :
          \/ post[i] = pre[i]
          \/ /\ post[i] = [path |-> path, content |-> content]
             /\ pre[i].path = path \/ pre[i].content = content
    /\ Len(post) = Len(pre) + 1 => post[Len(post)] = [path |-> path, content |-> content]

\* post is pre, or pre without one entry, the others in their order.
KeepsOrderRemove(pre, post) ==
    \/ post = pre
    \/ \E k \in 1..Len(pre) :
          post = [i \in 1..(Len(pre) - 1) |-> IF i < k THEN pre[i] ELSE pre[i + 1]]

\* C16 (concatenation order): a valid snapshot is the initializer's output,
\* then the prologue entries, the body entries and the epilogue entries, each
\* sequence in its stored order; a file event leaves the body's entries in
\* their order: a replaced or relocated entry stays at its position, a new
\* entry goes to the tail, a removal closes the gap.
C16_ConcatenationOrder ==
    /\ \A b \in {"js", "html"} :
          assets[b].cacheValid => assets[b].cachedMinified = OrderedUnits(assets[b], b)
    /\ (last.op = "NewFileEvent" /\ last.applied) =>
          IF last.event \in {"remove", "delete"}
          THEN KeepsOrderRemove(last.pre.contentMiddle, Body(last.b))
          ELSE IF last.event = "rename"
          THEN Body(last.b) = last.pre.contentMiddle
          ELSE KeepsOrderUpsert(last.pre.contentMiddle, Body(last.b), last.path, last.content)

C16_Witness ==
    /\ last.op = "NewFileEvent"
    /\ last.b = "html"
    /\ last.event = "write"
    /\ Len(Body("html")) = 2
    /\ Body("html")[1].path = last.path
    /\ last.pre.contentMiddle[1].content # <<"a">>
    /\ assets["html"].cachedMinified =
          ContentsOf(assets["html"].contentOpen) \o <<"a">> \o Body("html")[2].content
             \o ContentsOf(assets["html"].contentClose)

\* --------------------------------------- specification: the early returns
\* File events of every kind on source files and on the output files, spelled
\* in several ways, while SSR mode and the disk mode change.
SourcePaths == {PathNames[1], "src/Script.js"}
OutputSpellings == {"out/script.js", "out/SCRIPT.JS", "out//style.css", "out/./Sprite.svg", "out/index.html"}

GuardFileEvent ==
    \E p \in SourcePaths \cup OutputSpellings, e \in Events : NewFileEvent(".js", p, e, TRUE, <<"a">>)

SSRModeChanges == \E mode \in BOOLEAN : SetSSRMode(mode)

NextGuard == GuardFileEvent \/ SSRModeChanges \/ BuildOnDiskChanges \/ ReadScript

SpecGuard == Init /\ [][NextGuard]_vars

\* ------------------------------------------------ claims: the early returns
\* This step is a call of NewFileEvent.
EventStep == last'.op = "NewFileEvent" /\ ssrMode' = ssrMode

\* No bundle's body, cache or output file changes in this step.
NoProcessing == assets' = assets /\ disk' = disk /\ registeredIconIDs' = registeredIconIDs

MatchesOutput(filePath) ==
    \E o \in OutputPaths : ToLowerPath(Clean(filePath)) = ToLowerPath(Clean(o))

DiskContents == {<<"a">>, <<"b">>}

DiskFileEvent ==
    \E p \in CrudPaths :
        \/ \E c \in DiskContents : NewFileEvent(".js", p, "write", TRUE, c)
        \/ NewFileEvent(".js", p, "remove", FALSE, <<>>)

NextDisk == DiskFileEvent \/ CacheRefresh \/ BuildOnDiskChanges

SpecDisk == Init /\ [][NextDisk]_vars

\* ------------------------------------------------ claims: the disk mode
\* This step is a NewFileEvent or a RefreshAsset that reached processAsset.
ProcessStep == last'.op \in {"NewFileEvent", "RefreshAsset"} /\ last'.minified

\* C21 (disk gating): while buildOnDisk is false a NewFileEvent or RefreshAsset
\* writes no output file, but a successful one leaves the cache valid with a
\* snapshot of the updated body; while buildOnDisk is true a successful one
\* writes the bundle's output file, and the file is the snapshot, which holds
\* every entry of the body, those added while the mode was off included.
C21_DiskGating ==
    [][ProcessStep =>
          /\ ~buildOnDisk => disk' = disk
          /\ ~last'.failed =>
                /\ assets'["js"].cacheValid
                /\ \A i \in 1..Len(assets'["js"].contentMiddle) :
                      Contains(assets'["js"].cachedMinified, assets'["js"].contentMiddle[i].content)
          /\ (buildOnDisk /\ ~last'.failed) =>
                /\ disk'["js"].exists
                /\ disk'["js"].data = assets'["js"].cachedMinified]_vars

C21_Witness ==
    /\ buildOnDisk
    /\ last.op = "NewFileEvent"
    /\ ~last.failed
    /\ Len(last.pre.contentMiddle) = 1
    /\ Len(Body("js")) = 2
    /\ disk["js"].exists
    /\ \A i \in 1..2 : Contains(disk["js"].data, Body("js")[i].content)

\* ----------------------------------- specification: the safe initial write
\* File events on scripts and styles, output files left on disk by an earlier
\* build, and SetExternalSSRCompiler.
SafeBundles == {"css", "js"}
SafeContents == {<<"a">>, <<"!">>}
Preserved == <<"preserved">>

SafeFileEvent ==
    \E x \in {".css", ".js"}, c \in SafeContents :
        NewFileEvent(x, PathNames[1], "write", TRUE, c)

\* The environment: an output file is already in the output directory.
ExistingFile ==
    \E b \in SafeBundles :
        /\ ~disk[b].exists
        /\ disk' = [disk EXCEPT ![b] = [exists |-> TRUE, data |-> Preserved]]
        /\ UNCHANGED <<assets, registeredIconIDs, buildOnDisk, ssrMode, initJS, seqVars, concVars>>

ExternalSSRCompilerSet ==
    \E r \in SSRResults, onDisk \in BOOLEAN : SetExternalSSRCompiler(r, onDisk)

NextSafe == SafeFileEvent \/ ExistingFile \/ ExternalSSRCompilerSet

SpecSafe == Init /\ [][NextSafe]_vars

\* ---------------------------------------- claims: the safe initial write
\* C22 (safe initial write): when SetExternalSSRCompiler enables disk
\* building, an output file that already exists keeps its bytes, an output
\* file that does not exist is created with the regenerated snapshot, and the
\* cache of the bundle is regenerated in both cases.
C22_SafeInitialWrite ==
    [][(last'.op = "SetExternalSSRCompiler" /\ last'.applied) =>
          \A b \in Bundles :
             /\ disk[b].exists => disk'[b] = disk[b]
             /\ RegenerateErr(assets[b], b, initJS) = Nil =>
                   /\ assets'[b].cacheValid
                   /\ assets'[b].cachedMinified = Minify(MediaType(b), WriteContent(assets[b], b, initJS))
                   /\ ~disk[b].exists =>
                         disk'[b] = [exists |-> TRUE, data |-> assets'[b].cachedMinified]]_vars

C22_Witness ==
    /\ last.op = "SetExternalSSRCompiler"
    /\ last.applied
    /\ ~last.failed
    /\ Body("css") # <<>>
    /\ Body("js") # <<>>
    /\ disk["css"].data = Preserved
    /\ assets["css"].cacheValid
    /\ assets["css"].cachedMinified # Preserved
    /\ disk["js"].exists
    /\ disk["js"].data = assets["js"].cachedMinified

\* --------------------------------------------------- component registration
\* A component, by what its methods return: RenderCSS and RenderJS (<<>> for
\* "" and for a component that is not a provider), IconSvg (the ids), whether
\* it is an HTMLProvider and what RenderHTML returns, whether it implements
\* AccessLevel and what AllowedRoles('r') returns.
NoComponent ==
    [css |-> <<>>, js |-> <<>>, icons |-> <<>>, htmlProvider |-> FALSE, html |-> <<>>,
     access |-> FALSE, roles |-> {}]

\* Mutant of isPublicReadable: every component passes.
isPublicReadableAlways(comp) == TRUE

\* isPublicReadable: the component implements AccessLevel and AllowedRoles('r')
\* contains '*'.
isPublicReadable(comp) == comp.access /\ "*" \in comp.roles

\* The append of RegisterComponents: a new entry at the tail of the body and
\* the cache invalid, when the rendered text is not "".
AppendComponent(h, name, content) ==
    IF content = <<>> THEN h
    ELSE [h EXCEPT !.contentMiddle = Append(h.contentMiddle, [path |-> name, content |-> content]),
                   !.cacheValid = FALSE]

ComponentSvg == <<"<path/>">>

\* The loop over provider.IconSvg(): addIcon for each icon, stopping at the
\* first error.  st: the bundles, the registry and the error so far.
RECURSIVE RegisterIcons(_, _)
RegisterIcons(st, icons) ==
    IF icons = <<>> \/ st.err # Nil THEN st
    ELSE RegisterIcons(
            [assets |-> [st.assets EXCEPT !["svg"] = addIconAsset(st.assets["svg"], st.reg, Head(icons), ComponentSvg)],
             reg |-> addIconRegistry(st.reg, Head(icons)),
             err |-> addIconErr(st.reg, Head(icons))],
            Tail(icons))

\* One iteration of the loop of RegisterComponents.
RegisterComponent(st, comp) ==
    LET withCss == [st.assets EXCEPT !["css"] = AppendComponent(st.assets["css"], "component.css", comp.css)]
        withJs == [withCss EXCEPT !["js"] = AppendComponent(withCss["js"], "component.js", comp.js)]
        iconed == RegisterIcons([assets |-> withJs, reg |-> st.reg, err |-> Nil], comp.icons)
    IN IF iconed.err # Nil THEN iconed
       ELSE IF comp.htmlProvider /\ isPublicReadable(comp)
       THEN [iconed EXCEPT !.assets["html"] = AppendComponent(iconed.assets["html"], "component.html", comp.html)]
       ELSE iconed

\* Mutant of RegisterAll: the components after a failing one are processed
\* too, and the first error is the one returned.
RECURSIVE RegisterAllContinues(_, _)
RegisterAllContinues(st, components) ==
    IF components = <<>> THEN st
    ELSE LET next == RegisterComponent(st, Head(components)) IN
         RegisterAllContinues([next EXCEPT !.err = IF st.err # Nil THEN st.err ELSE next.err],
                              Tail(components))

RECURSIVE RegisterAll(_, _)
RegisterAll(st, components) ==
    IF components = <<>> \/ st.err # Nil THEN st
    ELSE RegisterAll(RegisterComponent(st, Head(components)), Tail(components))

\* AssetMin.RegisterComponents(components...), under AssetMin.mu.
RegisterComponents(components) ==
    LET st == RegisterAll([assets |-> assets, reg |-> registeredIconIDs, err |-> Nil], components) IN
    /\ assets' = st.assets
    /\ registeredIconIDs' = st.reg
    /\ last' = [NoCall EXCEPT !.op = "RegisterComponents", !.b = "html", !.content = components,
                    !.err = st.err, !.pre = assets["html"], !.regPre = registeredIconIDs]
    /\ prev' = Summary(last)
    /\ UNCHANGED <<buildOnDisk, ssrMode, disk, initJS, crud, watch>>
    /\ UNCHANGED concVars

\* -------------------------------------- specification: component registration
\* The longest argument list of RegisterComponents.
NumComponents == 2
\* RegisterComponents is called while the HTML and style bodies together hold
\* fewer entries than this.
MaxRegistered == 2

\* The components offered: public, restricted to users, without AccessLevel,
\* public and rendering "", public and carrying an icon, styles only.
ComponentKinds ==
    {[NoComponent EXCEPT !.htmlProvider = TRUE, !.html = <<"public">>, !.access = TRUE, !.roles = {"*", "u"}],
     [NoComponent EXCEPT !.htmlProvider = TRUE, !.html = <<"private">>, !.access = TRUE, !.roles = {"u"}],
     [NoComponent EXCEPT !.htmlProvider = TRUE, !.html = <<"anonymous">>],
     [NoComponent EXCEPT !.htmlProvider = TRUE, !.access = TRUE, !.roles = {"*"}],
     [NoComponent EXCEPT !.htmlProvider = TRUE, !.html = <<"badge">>, !.access = TRUE, !.roles = {"*"},
                         !.icons = <<IconNames[1]>>],
     [NoComponent EXCEPT !.css = <<"c">>, !.html = <<"hidden">>, !.access = TRUE, !.roles = {"*"}]}

ComponentLists == UNION {[1..n -> ComponentKinds] : n \in 1..NumComponents}

Registration ==
    /\ Len(Body("html")) + Len(Body("css")) < MaxRegistered
    /\ \E components \in ComponentLists : RegisterComponents(components)

NextComponents == Registration \/ ReadHtml

SpecComponents == Init /\ [][NextComponents]_vars

\* ------------------------------------------- claims: component registration
\* The HTML entries a call appended.
Injected == SubSeq(Body("html"), Len(last.pre.contentMiddle) + 1, Len(Body("html")))

\* C23 (public-only SSR injection): RegisterComponents appends a component's
\* RenderHTML output to the HTML body only if the component is an HTMLProvider
\* whose AllowedRoles('r') contains '*'; the entries already in the body stay,
\* and when no component of the call is public the HTML body and the validity
\* of the HTML cache are as they were.  A call that returns nil has appended
\* the non-empty output of each of its public components.
C23_PublicOnlyInjection ==
    last.op = "RegisterComponents" =>
        /\ SubSeq(Body("html"), 1, Len(last.pre.contentMiddle)) = last.pre.contentMiddle
        /\ \A i \in 1..Len(Injected) :
              \E k \in 1..Len(last.content) :
                 /\ last.content[k].htmlProvider
                 /\ last.content[k].access
                 /\ "*" \in last.content[k].roles
                 /\ Injected[i] = [path |-> "component.html", content |-> last.content[k].html]
        /\ (\A k \in 1..Len(last.content) :
               ~(last.content[k].htmlProvider /\ last.content[k].access /\ "*" \in last.content[k].roles)) =>
              /\ Body("html") = last.pre.contentMiddle
              /\ assets["html"].cacheValid = last.pre.cacheValid
        /\ last.err = Nil =>
              \A k \in 1..Len(last.content) :
                 (/\ last.content[k].htmlProvider
                  /\ last.content[k].access
                  /\ "*" \in last.content[k].roles
                  /\ last.content[k].html # <<>>) =>
                    \E i \in 1..Len(Injected) : Injected[i].content = last.content[k].html

\* C23 witness: a call with a public and a restricted component on an HTML
\* bundle whose cache was valid: only the public output is appended.
C23_Witness ==
    /\ last.op = "RegisterComponents"
    /\ last.pre.cacheValid
    /\ \E k \in 1..Len(last.content) : last.content[k].html = <<"private">>
    /\ \E k \in 1..Len(last.content) : last.content[k].html = <<"public">>
    /\ Len(Injected) = 1
    /\ Injected[1].content = <<"public">>
    /\ ~assets["html"].cacheValid

\* -------------------------------------- specification: fail-fast registration
\* AssetMin.AddIcon(providers...), under AssetMin.mu: addIcon for every icon of
\* every provider, returning at the first error; nothing for no providers.
AddIcon(providers) ==
    LET RECURSIVE eachProvider(_, _)
        eachProvider(st, ps) ==
            IF ps = <<>> \/ st.err # Nil THEN st
            ELSE eachProvider(RegisterIcons(st, Head(ps).icons), Tail(ps))
        st == eachProvider([assets |-> assets, reg |-> registeredIconIDs, err |-> Nil], providers)
    IN /\ assets' = st.assets
       /\ registeredIconIDs' = st.reg
       /\ last' = [NoCall EXCEPT !.op = "AddIcon", !.b = "svg", !.content = providers,
                       !.err = st.err, !.pre = assets["svg"], !.regPre = registeredIconIDs]
       /\ prev' = Summary(last)
       /\ UNCHANGED <<buildOnDisk, ssrMode, disk, initJS, crud, watch>>
       /\ UNCHANGED concVars

\* The components offered: each public, with styles, scripts and icons that
\* collide with one another's.
FailFastKinds ==
    {[NoComponent EXCEPT !.css = <<"c">>, !.js = <<"j">>, !.icons = <<IconNames[1]>>,
                         !.htmlProvider = TRUE, !.html = <<"a">>, !.access = TRUE, !.roles = {"*"}],
     [NoComponent EXCEPT !.css = <<"d">>, !.icons = <<IconNames[2], IconNames[1]>>,
                         !.htmlProvider = TRUE, !.html = <<"b">>, !.access = TRUE, !.roles = {"*"}],
     [NoComponent EXCEPT !.js = <<"k">>, !.icons = <<IconNames[2]>>,
                         !.htmlProvider = TRUE, !.html = <<"e">>, !.access = TRUE, !.roles = {"*"}]}

FailFastLists == UNION {[1..n -> FailFastKinds] : n \in 1..NumComponents}

\* The icon providers offered to AddIcon.
IconProviders ==
    {[NoComponent EXCEPT !.icons = <<IconNames[1]>>],
     [NoComponent EXCEPT !.icons = <<IconNames[2], IconNames[1]>>],
     [NoComponent EXCEPT !.icons = <<IconNames[2]>>]}

IconProviderLists == UNION {[1..n -> IconProviders] : n \in 0..NumComponents}

FailFastRegistration ==
    /\ Len(Body("css")) + Len(Body("js")) < MaxRegistered
    /\ \E components \in FailFastLists : RegisterComponents(components)

IconRegistration == \E providers \in IconProviderLists : AddIcon(providers)

NextFailFast == FailFastRegistration \/ IconRegistration

SpecFailFast == Init /\ [][NextFailFast]_vars

\* --------------------------------------------- claims: fail-fast registration
\* The icon ids of a call, in the order addIcon receives them.
RECURSIVE FlatIcons(_)
FlatIcons(components) ==
    IF components = <<>> THEN <<>> ELSE Head(components).icons \o FlatIcons(Tail(components))

\* The position, in that order, of the first id that is registered already
\* or occurs earlier in the call; 0 when there is none.
FirstCollision(components, reg) ==
    LET flat == FlatIcons(components)
        hits == {f \in 1..Len(flat) : flat[f] \in reg \cup {flat[g] : g \in 1..(f - 1)}}
    IN IF hits = {} THEN 0 ELSE CHOOSE f \in hits : \A g \in hits : f <= g

\* The component that holds the icon at a position of that order.
ComponentAt(components, f) ==
    CHOOSE k \in 1..Len(components) :
        /\ Len(FlatIcons(SubSeq(components, 1, k))) >= f
        /\ Len(FlatIcons(SubSeq(components, 1, k - 1))) < f

\* The entries the components contribute to a bundle's body, in call order.
RECURSIVE Contributed(_, _)
Contributed(components, b) ==
    IF components = <<>> THEN <<>>
    ELSE LET comp == Head(components)
             text == CASE b = "css" -> comp.css
                       [] b = "js" -> comp.js
                       [] OTHER -> IF comp.htmlProvider /\ comp.access /\ "*" \in comp.roles
                                   THEN comp.html ELSE <<>>
         IN (IF text = <<>> THEN <<>> ELSE <<[path |-> "component." \o b, content |-> text]>>)
            \o Contributed(Tail(components), b)

\* C35 (fail-fast registration is not atomic): a RegisterComponents or AddIcon
\* call that returns an error returns the collision error of the first icon
\* of the call that is registered already; the styles and scripts of every
\* component up to and including the colliding one, the HTML of every public
\* component before it, and every icon before the colliding one stay appended
\* and registered; nothing of the components after it is added.
C35_FailFastNotAtomic ==
    [][(last'.op \in {"RegisterComponents", "AddIcon"} /\ last'.err # Nil) =>
          LET components == last'.content
              flat == FlatIcons(components)
              f == FirstCollision(components, registeredIconIDs)
              k == ComponentAt(components, f)
              sprite == assets["svg"].contentMiddle
          IN /\ f # 0
             /\ last'.err = ErrIconRegistered(flat[f])
             /\ assets'["css"].contentMiddle =
                   assets["css"].contentMiddle \o Contributed(SubSeq(components, 1, k), "css")
             /\ assets'["js"].contentMiddle =
                   assets["js"].contentMiddle \o Contributed(SubSeq(components, 1, k), "js")
             /\ assets'["html"].contentMiddle =
                   assets["html"].contentMiddle \o Contributed(SubSeq(components, 1, k - 1), "html")
             /\ registeredIconIDs' = registeredIconIDs \cup {flat[g] : g \in 1..(f - 1)}
             /\ Len(assets'["svg"].contentMiddle) = Len(sprite) + f - 1
             /\ SubSeq(assets'["svg"].contentMiddle, 1, Len(sprite)) = sprite
             /\ \A g \in 1..(f - 1) :
                   assets'["svg"].contentMiddle[Len(sprite) + g].path = IconFile(flat[g])]_vars

\* C35 witness: a call with two components on an empty registry fails at the
\* second icon of its second component: the first component's HTML and icon
\* and the second component's styles and first icon are kept, the second
\* component's HTML is not appended.
C35_Witness ==
    /\ last.op = "RegisterComponents"
    /\ last.err = ErrIconRegistered(IconNames[1])
    /\ last.regPre = {}
    /\ Len(last.content) = 2
    /\ last.content[2].html = <<"b">>
    /\ registeredIconIDs = {IconNames[1], IconNames[2]}
    /\ Len(Body("html")) = Len(last.pre.contentMiddle) + 1
    /\ Body("html")[Len(Body("html"))].content = <<"a">>
    /\ Body("css")[Len(Body("css"))].content = <<"d">>

\* ---------------------------------------------------- specification: refresh
\* The extensions RefreshAsset is called with.
RefreshExtensions == {".js", ".css", ".svg", ".html", ".txt"}

\* Written script files, well formed or rejected by the minifier, and a
\* written style file.
RefreshFileEvent ==
    \/ \E p \in CachePaths, c \in CacheContents : NewFileEvent(".js", p, "write", TRUE, c)
    \/ NewFileEvent(".css", PathNames[1], "write", TRUE, <<"a">>)

\* Content stored without processing: the bundle's cache is left invalid.
RefreshMemoryEvent ==
    \E extension \in {".js", ".svg"} :
        UpdateFileContentInMemory(PathNames[1], extension, "write", <<"b">>)

Refresh == \E extension \in RefreshExtensions : RefreshAsset(extension)

NextRefresh ==
    \/ RefreshFileEvent
    \/ RefreshMemoryEvent
    \/ Refresh
    \/ BuildOnDiskChanges

SpecRefresh == Init /\ [][NextRefresh]_vars

\* ----------------------------------------------------------- claims: refresh
\* C37 (RefreshAsset frame and idempotence): RefreshAsset changes no bundle's
\* prologue, body or epilogue and nothing outside the bundle of its extension;
\* for ".js" and ".css" the bundle's snapshot becomes the minification of the
\* initializer output and the three sections, and the output file holds it when
\* buildOnDisk is true (a minifier failure leaves both as they were); for any
\* other extension nothing changes; a second call on the resulting state
\* yields the same snapshot and the same output file.
C37_RefreshFrame ==
    [][(last'.op = "RefreshAsset" /\ initJS' = initJS) =>
          LET extension == last'.path
              b == CASE extension = ".js" -> "js"
                     [] extension = ".css" -> "css"
                     [] OTHER -> NoBundle
          IN /\ \A x \in Bundles :
                   /\ assets'[x].contentOpen = assets[x].contentOpen
                   /\ assets'[x].contentMiddle = assets[x].contentMiddle
                   /\ assets'[x].contentClose = assets[x].contentClose
             /\ \A x \in Bundles \ {b} : assets'[x] = assets[x] /\ disk'[x] = disk[x]
             /\ registeredIconIDs' = registeredIconIDs
             /\ buildOnDisk' = buildOnDisk
             /\ ssrMode' = ssrMode
             /\ b # NoBundle =>
                   LET buf == WriteContent(assets[b], b, initJS) IN
                   /\ IF MinifyFails(MediaType(b), buf)
                      THEN assets'[b] = assets[b] /\ disk'[b] = disk[b]
                      ELSE /\ assets'[b].cacheValid
                           /\ assets'[b].cachedMinified = Minify(MediaType(b), buf)
                           /\ disk'[b] = IF buildOnDisk
                                         THEN [exists |-> TRUE, data |-> assets'[b].cachedMinified]
                                         ELSE disk[b]
                   /\ RegenerateAsset(assets'[b], b, initJS) = assets'[b]
                   /\ ProcessedDisk(disk'[b], assets'[b], b, initJS, buildOnDisk) = disk'[b]]_vars

\* C37 witness: RefreshAsset(".js") with buildOnDisk on has regenerated an
\* invalid script cache and written the file, while the sprite cache is
\* still invalid.
C37_Witness ==
    /\ last.op = "RefreshAsset"
    /\ last.path = ".js"
    /\ buildOnDisk
    /\ ~last.pre.cacheValid
    /\ Len(Body("js")) > 0
    /\ assets["js"].cacheValid
    /\ disk["js"].exists
    /\ disk["js"].data = assets["js"].cachedMinified
    /\ ~assets["svg"].cacheValid

\* ------------------------------------------------- specification: dispatch
\* One source file per extension, the favicon in two directories, an icon and
\* a file of an extension no bundle takes; each file has its own bytes.
DispatchFiles ==
    {[extension |-> ".css", path |-> "theme.css", content |-> <<"theme">>],
     [extension |-> ".js", path |-> "app.js", content |-> <<"app">>],
     [extension |-> ".html", path |-> "page.html", content |-> <<"page">>],
     [extension |-> ".svg", path |-> "favicon.svg", content |-> <<"circle">>],
     [extension |-> ".svg", path |-> "icons/favicon.svg", content |-> <<"ring">>],
     [extension |-> ".svg", path |-> "icons/home.svg", content |-> <<"home">>],
     [extension |-> ".txt", path |-> "notes.txt", content |-> <<"notes">>]}

DispatchFileEvent ==
    \E f \in DispatchFiles :
        \/ NewFileEvent(f.extension, f.path, "write", TRUE, f.content)
        \/ NewFileEvent(f.extension, f.path, "remove", FALSE, <<>>)

NextDispatch == DispatchFileEvent

SpecDispatch == Init /\ [][NextDispatch]_vars

\* --------------------------------------------------------- claims: dispatch
\* The bundle the claim assigns to each file of the specification.
ExpectedBundle(path) ==
    CASE path = "theme.css" -> "css"
      [] path = "app.js" -> "js"
      [] path = "page.html" -> "html"
      [] path \in {"favicon.svg", "icons/favicon.svg"} -> "favicon"
      [] path = "icons/home.svg" -> "svg"
      [] OTHER -> NoBundle

FaviconTokens == {"circle", "ring"}
SpriteTokens == {"home"}

\* C24 (dispatch and bundle isolation): a file event mutates the one bundle
\* its extension selects (.css, .js, .html, and for .svg the sprite unless the
\* base name is favicon.svg, which selects the favicon); the body and the
\* cache of every other bundle are unchanged, an event of
\* another extension changes nothing, and no favicon bytes are in the sprite's
\* snapshot nor sprite bytes in the favicon's.
C24_DispatchIsolation ==
    [][last'.op = "NewFileEvent" =>
          /\ last'.applied <=> ExpectedBundle(last'.path) # NoBundle
          /\ last'.applied => last'.b = ExpectedBundle(last'.path)
          /\ \A o \in Bundles \ {ExpectedBundle(last'.path)} :
                assets'[o] = assets[o]
          /\ (last'.applied /\ last'.event = "write") =>
                \E i \in 1..Len(assets'[last'.b].contentMiddle) :
                   assets'[last'.b].contentMiddle[i].path = last'.path
          /\ \A tok \in FaviconTokens : ~HasToken(assets'["svg"].cachedMinified, tok)
          /\ \A tok \in SpriteTokens : ~HasToken(assets'["favicon"].cachedMinified, tok)]_vars

\* C24 witness: the favicon in a directory goes to the favicon bundle while
\* the sprite holds an icon, and both snapshots are current.
C24_Witness ==
    /\ last.op = "NewFileEvent"
    /\ last.path = "icons/favicon.svg"
    /\ last.event = "write"
    /\ last.b = "favicon"
    /\ HasToken(assets["favicon"].cachedMinified, "ring")
    /\ HasToken(assets["svg"].cachedMinified, "home")
    /\ assets["svg"].cacheValid
    /\ Body("css") # <<>>

\* ------------------------------------------------- specification: removals
\* Writes of scripts, one of which the minifier rejects, and remove and delete
\* events for files that are gone from disk.
RemoveContents == {<<"a">>, <<"!">>}

RemoveFileEvent ==
    \E p \in Paths :
        \/ \E c \in RemoveContents : NewFileEvent(".js", p, "write", TRUE, c)
        \/ \E e \in Removals : NewFileEvent(".js", p, e, FALSE, <<>>)

NextRemove == RemoveFileEvent

SpecRemove == Init /\ [][NextRemove]_vars

\* --------------------------------------------------------- claims: removals
\* This step is a remove or delete event.
RemovalStep == last'.op = "NewFileEvent" /\ last'.event \in Removals

\* The positions of an identity in a body.
PositionsOf(files, filePath) == {i \in 1..Len(files) : files[i].path = filePath}

\* What a removal does to the body, as the claim states it.
RemovesExactly ==
    LET pre == assets["js"].contentMiddle
        post == assets'["js"].contentMiddle
        S == PositionsOf(pre, last'.path)
    IN /\ last'.applied
       /\ last'.err # <<"read">>
       /\ S = {} => post = pre
       /\ S # {} =>
             \E idx \in S :
                /\ Len(post) = Len(pre) - 1
                /\ \A i \in 1..Len(post) : post[i] = IF i < idx THEN pre[i] ELSE pre[i + 1]
                /\ PositionsOf(post, last'.path) = {}

\* C25 as stated: a remove or delete event for an identity that is not in
\* the body returns no error.
C25_RemoveAsStated ==
    [][RemovalStep =>
          /\ RemovesExactly
          /\ PositionsOf(assets["js"].contentMiddle, last'.path) = {} => last'.err = Nil]_vars

\* C25 (removal): a remove or delete event deletes exactly the entry whose
\* identity matches, when there is one, and leaves the body as it is
\* otherwise; the file is not read, so the event never fails on a missing
\* file; the only error it returns is the minifier's, on the entries that
\* remain.
C25_Remove ==
    [][RemovalStep =>
          /\ RemovesExactly
          /\ last'.err # Nil =>
                /\ last'.err = ErrMinify
                /\ \E i \in 1..Len(assets'["js"].contentMiddle) :
                      HasToken(assets'["js"].contentMiddle[i].content, "!")]_vars

\* C25 witness: a delete for an identity that is not in the body, which
\* holds two entries: the body stays and the minifier's error is returned.
C25_Witness ==
    /\ last.op = "NewFileEvent"
    /\ last.event = "delete"
    /\ last.applied
    /\ Len(last.pre.contentMiddle) = 2
    /\ PositionsOf(last.pre.contentMiddle, last.path) = {}
    /\ Body("js") = last.pre.contentMiddle
    /\ last.err = ErrMinify

\* ----------------------------------- specification: duplicate-content rename
\* Write, rename and create events on scripts, with the observer tracking a
\* rename of one of two files that hold the same bytes.
InitDup == InitProgram /\ watch = {"dup"}

DupFileEvent ==
    \E p \in Paths, e \in FlowEvents, c \in SpecContents : NewFileEvent(".js", p, e, TRUE, c)

NextDup == DupFileEvent

SpecDup == InitDup /\ [][NextDup]_vars

\* ------------------------------------------- claims: duplicate-content rename
\* The file of the two that was not renamed.
Unrenamed == IF crud.others[1] = crud.id THEN crud.y[1] ELSE crud.id

\* The last event completed the rename of one of the only two files with
\* these bytes, onto a path that had no entry.
DupRenamed ==
    /\ crud.stage = 4
    /\ ~last.failed
    /\ findFileIndex(last.pre.contentMiddle, last.path) = 0
    /\ \A i \in 1..Len(last.pre.contentMiddle) :
          last.pre.contentMiddle[i].content = crud.x =>
             last.pre.contentMiddle[i].path \in {crud.id, crud.y[1]}

\* C26 (duplicate-content rename): after two files with the same bytes were
\* delivered by write events and one of them was renamed (rename on its old
\* path, create on a new path with the same bytes), the file that was not
\* renamed and the new path both have an entry, and the shared bytes are in
\* the snapshot at least once and at most twice.
C26_DuplicateContentRename ==
    DupRenamed =>
        /\ findFileIndex(Body(crud.b), Unrenamed) # 0
        /\ findFileIndex(Body(crud.b), crud.others[2]) # 0
        /\ CountContent(Body(crud.b), crud.x) \in 1..2
        /\ CountToken(assets[crud.b].cachedMinified, crud.x[1]) \in 1..2

\* What the code keeps of it: the shared bytes are in the snapshot
\* at least once and at most twice.
SharedContentKept ==
    DupRenamed =>
        /\ CountContent(Body(crud.b), crud.x) \in 1..2
        /\ CountToken(assets[crud.b].cachedMinified, crud.x[1]) \in 1..2

\* --------------------------------------- specification: re-delivered events
\* Create and write events on scripts, some of them for empty files, while
\* the disk mode is switched on and off.
RedeliverContents == {<<>>, <<"a">>, <<"b">>}

RedeliverFileEvent ==
    \E p \in CrudPaths, e \in CrudEvents, c \in RedeliverContents :
        NewFileEvent(".js", p, e, TRUE, c)

NextRedeliver == RedeliverFileEvent \/ BuildOnDiskChanges

SpecRedeliver == Init /\ [][NextRedeliver]_vars

\* ----------------------------------------------- claims: re-delivered events
\* This step is a create event that reached UpdateContent.
CreateStep == last'.op = "NewFileEvent" /\ last'.event = "create" /\ last'.applied

\* The identity of this step's event is in the body with the event's bytes.
Redelivered ==
    \E i \in 1..Len(assets["js"].contentMiddle) :
        assets["js"].contentMiddle[i] = [path |-> last'.path, content |-> last'.content]

\* C27 (re-delivered events): a create event for an identity that is in the
\* body with the same bytes leaves the body, the snapshot and the output file
\* as they were; a create event for a new empty file leaves the snapshot and
\* the output file as they were.
C27_Redelivery ==
    [][(CreateStep /\ assets["js"].cacheValid) =>
          /\ Redelivered =>
                /\ assets'["js"].contentMiddle = assets["js"].contentMiddle
                /\ assets'["js"].cachedMinified = assets["js"].cachedMinified
                /\ assets'["js"].cacheValid
                /\ disk'["js"] = disk["js"]
          /\ (last'.content = <<>> /\ findFileIndex(assets["js"].contentMiddle, last'.path) = 0) =>
                /\ assets'["js"].cachedMinified = assets["js"].cachedMinified
                /\ assets'["js"].cacheValid
                /\ disk'["js"] = disk["js"]]_vars

\* C27 witness: in disk mode, a create event for a new empty file appended an
\* entry to a body that held a script, and the output file is the snapshot of
\* before.
C27_Witness ==
    /\ last.op = "NewFileEvent"
    /\ last.event = "create"
    /\ last.content = <<>>
    /\ buildOnDisk
    /\ last.pre.cacheValid
    /\ Len(last.pre.contentMiddle) = 1
    /\ last.pre.contentMiddle[1].content = <<"a">>
    /\ Len(Body("js")) = 2
    /\ disk["js"].exists
    /\ disk["js"].data = last.pre.cachedMinified

\* ------------------------------------ specification: reconciliation steps
\* UpdateContent on the HTML bundle, reached through
\* UpdateFileContentInMemory, with every event kind, identity and bytes.
FrameFileEvent ==
    \E p \in Paths, e \in Events, c \in SpecContents :
        UpdateFileContentInMemory(p, ".html", e, c)

NextFrame == FrameFileEvent

SpecFrame == Init /\ [][NextFrame]_vars

\* ----------------------------------------- claims: reconciliation steps
\* This step is an UpdateContent call.
UpdateStep == last'.op = "UpdateFileContentInMemory" /\ last'.applied

\* The positions at which two bodies differ, up to the shorter one's length.
Changed(pre, post) ==
    {i \in 1..Len(pre) : i <= Len(post) /\ post[i] # pre[i]}

\* C29 (frame of a reconciliation step): an UpdateContent call changes at
\* most one body entry and leaves the others with their identity, bytes and
\* order: a replacement keeps the length and the entry's index, a relocation
\* keeps the length and the entry's bytes, an append adds the event's entry
\* at the tail, a removal takes one entry out, a rename event changes
\* nothing; prologue and epilogue are never modified.
C29_Frame ==
    [][UpdateStep =>
          LET b == last'.b
              pre == assets[b].contentMiddle
              post == assets'[b].contentMiddle
              f == [path |-> last'.path, content |-> last'.content]
              at == PositionsOf(pre, last'.path)
          IN /\ assets'[b].contentOpen = assets[b].contentOpen
             /\ assets'[b].contentClose = assets[b].contentClose
             /\ Cardinality(Changed(pre, post)) <= 1 \/ Len(post) = Len(pre) - 1
             /\ (last'.event \in {"create", "write", "modify"} /\ at # {}) =>
                   /\ Len(post) = Len(pre)
                   /\ Changed(pre, post) \subseteq at
                   /\ \A i \in at : post[i] = f
             /\ (last'.event \in {"create", "write", "modify"} /\ at = {}) =>
                   \/ /\ Len(post) = Len(pre)
                      /\ \E i \in 1..Len(pre) :
                            /\ Changed(pre, post) = {i}
                            /\ pre[i].content = f.content
                            /\ post[i] = f
                   \/ /\ Len(post) = Len(pre) + 1
                      /\ Changed(pre, post) = {}
                      /\ post[Len(post)] = f
             /\ last'.event = "rename" => post = pre
             /\ (last'.event \in Removals /\ at = {}) => post = pre
             /\ (last'.event \in Removals /\ at # {}) =>
                   /\ Len(post) = Len(pre) - 1
                   /\ \E k \in at :
                         \A i \in 1..Len(post) : post[i] = IF i < k THEN pre[i] ELSE pre[i + 1]]_vars

\* C29 witness: a delete of the middle one of three entries.
C29_Witness ==
    /\ last.op = "UpdateFileContentInMemory"
    /\ last.event = "delete"
    /\ Len(last.pre.contentMiddle) = 3
    /\ last.pre.contentMiddle[2].path = last.path
    /\ Body("html") = <<last.pre.contentMiddle[1], last.pre.contentMiddle[3]>>
    /\ assets["html"].contentOpen = NewHtmlHandler.contentOpen

\* C30 (identity uniqueness): starting from an empty body, after any sequence
\* of UpdateContent calls no two entries of the body have the same identity.
C30_IdentityUnique ==
    \A b \in Bundles :
       \A i, j \in 1..Len(Body(b)) : Body(b)[i].path = Body(b)[j].path => i = j

\* C30 witness: a body with as many entries as there are identities, two of
\* them with the same bytes, after an entry was relocated to the event's
\* identity.
C30_Witness ==
    /\ last.op = "UpdateFileContentInMemory"
    /\ last.event = "create"
    /\ Len(Body("html")) = NumPaths - 1
    /\ Len(last.pre.contentMiddle) = NumPaths - 1
    /\ \A i \in 1..(NumPaths - 1) : last.pre.contentMiddle[i].path # last.path
    /\ \E i, j \in 1..(NumPaths - 1) : i # j /\ Body("html")[i].content = Body("html")[j].content

\* --------------------------------------------- specification: content loss
\* Create, write, modify and remove events on scripts, with the observer
\* keeping the bytes of every file that exists.
InitLoss == InitProgram /\ watch = {"latest"}

LossFileEvent ==
    \E p \in CrudPaths :
        \/ \E e \in {"create", "write", "modify"}, c \in SpecContents : NewFileEvent(".js", p, e, TRUE, c)
        \/ NewFileEvent(".js", p, "remove", FALSE, <<>>)

NextLoss == LossFileEvent

SpecLoss == InitLoss /\ [][NextLoss]_vars

\* ---------------------------------------------------- claims: content loss
\* C31 (no content loss): after any sequence of create, write, modify and
\* remove events on one bundle, for every identity whose most recent event is
\* a create, write or modify the body holds an entry with the bytes of that
\* event.
C31_NoContentLoss ==
    \A k \in 1..Len(crud.others) :
       \E i \in 1..Len(Body("js")) : Body("js")[i].content = crud.others[k].content

\* ------------------------------------- specification: cache invalidation
\* Write, rename and remove events on scripts and on the script bundle's own output
\* file, in-memory updates without processing, and reads, while SSR mode
\* changes; one of the contents is rejected by the minifier.
InvalidatePaths == CrudPaths \cup {"out/script.js"}

InvalidateFileEvent ==
    \E p \in InvalidatePaths :
        \/ \E e \in {"write", "rename"}, c \in CacheContents : NewFileEvent(".js", p, e, TRUE, c)
        \/ NewFileEvent(".js", p, "remove", FALSE, <<>>)

InvalidateMemoryEvent ==
    \E p \in CrudPaths :
        \/ \E e \in {"write", "rename"}, c \in CacheContents : UpdateFileContentInMemory(p, ".js", e, c)
        \/ UpdateFileContentInMemory(p, ".js", "remove", <<>>)

NextInvalidate == InvalidateFileEvent \/ InvalidateMemoryEvent \/ ReadScript \/ SSRModeChanges

SpecInvalidate == Init /\ [][NextInvalidate]_vars

\* ------------------------------------------- claims: cache invalidation
\* C32 (invalidate, then regenerate): every UpdateContent call leaves the
\* bundle's cache invalid, also a call that changes nothing in the body; a
\* NewFileEvent outside SSR mode and outside the own-output guard that
\* returns nil has reached UpdateContent and regenerated the cache, which is
\* valid and holds the minification of the bundle's content after the event;
\* one that fails at the minifier leaves the cache invalid.
C32_InvalidateRegenerate ==
    [][/\ (last'.op = "UpdateFileContentInMemory" /\ last'.applied) =>
             ~assets'[last'.b].cacheValid
       /\ (EventStep /\ ~ssrMode /\ ~MatchesOutput(last'.path) /\ last'.err = Nil) =>
             /\ last'.applied
             /\ assets'[last'.b].cacheValid
             /\ assets'[last'.b].cachedMinified =
                   Minify(MediaType(last'.b), WriteContent(assets'[last'.b], last'.b, initJS))
       /\ (EventStep /\ last'.applied /\ last'.err # Nil) =>
             ~assets'[last'.b].cacheValid]_vars

\* C32 witness: a rename event delivered to UpdateContent alone, on a bundle
\* whose cache was valid: the body is as before and the cache is invalid.
C32_Witness ==
    /\ last.op = "UpdateFileContentInMemory"
    /\ last.event = "rename"
    /\ last.pre.cacheValid
    /\ last.pre.contentMiddle # <<>>
    /\ Body("js") = last.pre.contentMiddle
    /\ ~assets["js"].cacheValid

\* --------------------------------------------- specification: failed events
\* Events on a script and a stylesheet that can be read, on a script that
\* cannot be read, on a file of an extension no bundle takes and with an empty
\* path, while the disk mode is switched.
FailFiles ==
    {[extension |-> ".js", path |-> PathNames[1], readable |-> TRUE],
     [extension |-> ".css", path |-> PathNames[2], readable |-> TRUE],
     [extension |-> ".js", path |-> "gone.js", readable |-> FALSE],
     [extension |-> ".txt", path |-> "notes.txt", readable |-> TRUE],
     [extension |-> ".js", path |-> "", readable |-> TRUE]}

FailEvents == {"write", "rename", "remove"}

FailFileEvent ==
    \E f \in FailFiles, e \in FailEvents, c \in SpecContents :
        NewFileEvent(f.extension, f.path, e, f.readable, c)

NextFail == FailFileEvent \/ BuildOnDiskChanges

SpecFail == Init /\ [][NextFail]_vars

\* ---------------------------------------------------- claims: failed events
\* The event of this step has an empty path, or a file that cannot be read
\* and is not being removed, or an extension outside .css, .js, .svg, .html.
FailingInput ==
    \/ last'.path = ""
    \/ last'.path = "notes.txt"
    \/ last'.path = "gone.js" /\ last'.event \notin Removals

\* C33 (a failed file event changes nothing): a NewFileEvent with an empty
\* filePath, with a file that cannot be read for a create, write, modify or
\* rename event, or with an extension that is not .css, .js, .svg or .html
\* returns an error and leaves the bodies, snapshots, validity flags and
\* output files of all bundles as they were.
C33_FailedEvent ==
    [][(last'.op = "NewFileEvent" /\ FailingInput) =>
          /\ last'.err # Nil
          /\ ~last'.applied
          /\ assets' = assets
          /\ disk' = disk
          /\ registeredIconIDs' = registeredIconIDs]_vars

\* C33 witness: a write event for a script that cannot be read, in disk mode,
\* with a script and a stylesheet in their bundles and on disk.
C33_Witness ==
    /\ last.op = "NewFileEvent"
    /\ last.path = "gone.js"
    /\ last.event = "write"
    /\ last.err # Nil
    /\ buildOnDisk
    /\ Body("js") # <<>>
    /\ Body("css") # <<>>
    /\ assets["js"].cacheValid
    /\ disk["js"].data = assets["js"].cachedMinified
    /\ disk["js"].data # <<>>

\* ------------------------------------------------------ the HTML splitter
\* A document is a sequence of tokens in which "\n" ends a line.
\* strings.Split(content, "\n")
RECURSIVE Split(_)
Split(s) ==
    LET i == IndexOf(s, "\n")
    IN IF i = 0 THEN <<s>>
       ELSE <<SubSeq(s, 1, i - 1)>> \o Split(SubSeq(s, i + 1, Len(s)))

\* strings.Join(lines, "\n")
RECURSIVE Join(_)
Join(lines) ==
    IF lines = <<>> THEN <<>>
    ELSE IF Len(lines) = 1 THEN lines[1]
    ELSE lines[1] \o <<"\n">> \o Join(Tail(lines))

\* strings.ToLower, on the tags the splitter looks for.
ToLowerToken(tok) ==
    CASE tok = "<MAIN" -> "<main"
      [] tok = "</MAIN>" -> "</main>"
      [] tok = "<SCRIPT" -> "<script"
      [] tok = "</BODY>" -> "</body>"
      [] OTHER -> tok

ToLower(s) == [i \in 1..Len(s) |-> ToLowerToken(s[i])]

\* The first loop of parseExistingHtmlContent, from line i (0-based) on: a
\* line holding "<main" sets inMain and is skipped; a later line holding
\* "</main>" is the split index.  0 when the loop ends without a break.
RECURSIVE mainSplitIndex(_, _, _)
mainSplitIndex(lines, i, inMain) ==
    IF i >= Len(lines) THEN 0
    ELSE LET lineLower == ToLower(lines[i + 1])
         IN IF HasToken(lineLower, "<main") THEN mainSplitIndex(lines, i + 1, TRUE)
            ELSE IF inMain /\ HasToken(lineLower, "</main>") THEN i
            ELSE mainSplitIndex(lines, i + 1, inMain)

\* The second and third loops: the 0-based index of the first line holding
\* tag; 0 when there is none.
tagSplitIndex(lines, tag) ==
    LET k == FirstIndex([i \in 1..Len(lines) |-> HasToken(ToLower(lines[i]), tag)], 1, Len(lines))
    IN IF k = 0 THEN 0 ELSE k - 1

\* The two halves around a marker token at position i.
splitAround(content, i) ==
    [openContent |-> SubSeq(content, 1, i - 1), closeContent |-> SubSeq(content, i + 1, Len(content))]

\* lines[:splitIndex], lines[splitIndex:] joined again.
splitLines(lines, splitIndex) ==
    [openContent |-> Join(SubSeq(lines, 1, splitIndex)),
     closeContent |-> Join(SubSeq(lines, splitIndex + 1, Len(lines)))]

parseExistingHtmlContent(content) ==
    LET placeholder == IndexOf(content, "<!-- MODULES_PLACEHOLDER -->")
        marker == IndexOf(content, "{{.Modules}}")
        lines == Split(content)
        s1 == mainSplitIndex(lines, 0, FALSE)
        s2 == IF s1 = 0 THEN tagSplitIndex(lines, "<script") ELSE s1
        s3 == IF s2 = 0 THEN tagSplitIndex(lines, "</body>") ELSE s2
        s4 == IF s3 = 0 THEN Len(lines) ELSE s3
    IN IF placeholder # 0 THEN splitAround(content, placeholder)
       ELSE IF marker # 0 THEN splitAround(content, marker)
       ELSE splitLines(lines, s4)

\* One call of the splitter on a document.
SplitDocument(content) ==
    /\ last' = [NoCall EXCEPT !.op = "parseExistingHtmlContent", !.content = content,
                    !.val = parseExistingHtmlContent(content)]
    /\ prev' = Summary(last)
    /\ UNCHANGED <<progVars, initJS, crud, watch, concVars>>

\* --------------------------------------- specification: the HTML splitter
HtmlLines ==
    {<<"<p>">>, <<"<main", ">">>, <<"</main>">>, <<"<main", ">", "</main>">>,
     <<"<script", ">">>, <<"</body>">>, <<"<div>", "{{.Modules}}", "</div>">>,
     <<"<!-- MODULES_PLACEHOLDER -->">>, <<"</MAIN>">>}

HtmlDocs == UNION {{Join(ls) : ls \in [1..n -> HtmlLines]} : n \in 1..MaxLines}

\* The splitter is a pure function: a behaviour is one call of it.
ParseDocument == last.op = "none" /\ \E content \in HtmlDocs : SplitDocument(content)

NextSplit == ParseDocument

SpecSplit == Init /\ [][NextSplit]_vars

\* ------------------------------------------- claims: the HTML splitter
\* The line (1-based) holding position idx.
LineOf(content, idx) == 1 + Cardinality({j \in 1..(idx - 1) : content[j] = "\n"})

\* The split immediately before line k.
SplitBeforeLine(content, k) == splitLines(Split(content), k - 1)

\* The closing </main> of the first <main> element: the first "</main>" after
\* the first "<main"; 0 when there is no such region.
ClosingMain(content) ==
    LET low == ToLower(content)
        m == IndexOf(low, "<main")
    IN IF m = 0 THEN 0
       ELSE FirstIndex([i \in 1..Len(low) |-> i > m /\ low[i] = "</main>"], 1, Len(low))

\* The split the priority list prescribes.
PrioritySplit(content) ==
    LET low == ToLower(content)
    IN IF HasToken(content, "<!-- MODULES_PLACEHOLDER -->")
          THEN splitAround(content, IndexOf(content, "<!-- MODULES_PLACEHOLDER -->"))
       ELSE IF HasToken(content, "{{.Modules}}")
          THEN splitAround(content, IndexOf(content, "{{.Modules}}"))
       ELSE IF ClosingMain(content) # 0
          THEN SplitBeforeLine(content, LineOf(content, ClosingMain(content)))
       ELSE IF HasToken(low, "<script")
          THEN SplitBeforeLine(content, LineOf(content, IndexOf(low, "<script")))
       ELSE IF HasToken(low, "</body>")
          THEN SplitBeforeLine(content, LineOf(content, IndexOf(low, "</body>")))
       ELSE [openContent |-> content, closeContent |-> <<>>]

Splitting == last.op = "parseExistingHtmlContent"

\* C13 (split-point priority): the splitter returns the split at the first of:
\* the placeholder comment, the {{.Modules}} marker, the line of the closing
\* </main> of a <main> element (also when both tags share a line), the line of
\* the first <script, the line of </body>; otherwise the whole document is the
\* prologue and the epilogue is empty.
C13_SplitPriority ==
    Splitting => last.val = PrioritySplit(last.content)

\* A document without a placeholder comment, a template marker or a <main
\* tag.
PlainDocument(content) ==
    /\ ~HasToken(content, "<!-- MODULES_PLACEHOLDER -->")
    /\ ~HasToken(content, "{{.Modules}}")
    /\ ~HasToken(ToLower(content), "<main")

\* C38 (script and body split points): for a document without a placeholder
\* comment, a template marker and a <main> element the boundary is immediately
\* before the line of the first <script tag if there is one, otherwise
\* immediately before the line of </body> if there is one, also when that line
\* is the first of the document (empty prologue, whole document as epilogue).
C38_TagSplit ==
    (Splitting /\ PlainDocument(last.content)) =>
        LET low == ToLower(last.content) IN
        /\ HasToken(low, "<script") =>
              last.val = SplitBeforeLine(last.content, LineOf(last.content, IndexOf(low, "<script")))
        /\ (~HasToken(low, "<script") /\ HasToken(low, "</body>")) =>
              last.val = SplitBeforeLine(last.content, LineOf(last.content, IndexOf(low, "</body>")))

\* ------------------------------------------- the handlers, step by step
\* The sprite bundle under concurrent callers.  A goroutine's position:
\*   idle         between calls
\*   uc_invalidate  UpdateContent entered, before h.InvalidateCache()
\*   uc_switch    after InvalidateCache returned (h.mu released), before the switch
\*   uc_mutating  inside the switch, contentMiddle partly written
\*   pa_wait      processAsset, waiting for h.mu in RegenerateCache
\*   get_wait     GetMinifiedContent, read lock released, waiting for h.mu.Lock()
\*   regen        holding h.mu, inside WriteContent / the minifier
\*   inject       InjectSpriteIcon, holding AssetMin.mu
ConcBundle == "svg"

\* What a reader that does not exclude the writer can find in a slot the writer
\* is storing into: not all of the entry's bytes.
TornContent == <<"~">>

FirstDiff(old, new) ==
    CHOOSE i \in 1..(Len(old) + 1) :
        /\ (i > Len(old) \/ i > Len(new) \/ old[i] # new[i])
        /\ \A j \in 1..(i - 1) : j <= Len(new) /\ old[j] = new[j]

\* The body as seen halfway through the store that turns old into new.
TornBody(old, new) ==
    LET base == IF Len(new) >= Len(old) THEN new ELSE old
    IN [base EXCEPT ![FirstDiff(old, new)].content = TornContent]

Mutating(t) == pc[t] = "uc_mutating"

\* The bodies the loop of WriteContent can read at this moment: the stored one
\* and, for every goroutine that is inside the switch of UpdateContent (which
\* holds no lock), what it is storing, whole or in part.
ReadableBodies(t) ==
    {assets[ConcBundle].contentMiddle}
        \cup UNION {{loc[u].pending, TornBody(assets[ConcBundle].contentMiddle, loc[u].pending)} :
                        u \in {v \in Threads \ {t} : Mutating(v)}}

\* Mutant of MuAvailable: NewFileEvent does not wait for AssetMin.mu.
MuIgnored(viaEvent) == TRUE

\* c.mu.Lock() of NewFileEvent returns only when no other call holds
\* AssetMin.mu; UpdateFileContentInMemory does not take it.
MuAvailable(viaEvent) == viaEvent => cmu = 0

\* UpdateFileContentInMemory (viaEvent = FALSE) or NewFileEvent (viaEvent = TRUE,
\* after c.mu.Lock() and os.ReadFile) reaches UpdateContent.
EnterUpdate(t, filePath, event, content, viaEvent) ==
    /\ pc[t] = "idle"
    /\ MuAvailable(viaEvent)
    /\ cmu' = IF viaEvent THEN t ELSE cmu
    /\ pc' = [pc EXCEPT ![t] = "uc_invalidate"]
    /\ loc' = [loc EXCEPT ![t] = [IdleLocals EXCEPT !.op = "UpdateContent", !.path = filePath,
                                      !.event = event, !.content = content, !.viaEvent = viaEvent]]
    /\ UNCHANGED <<progVars, initJS, mu>>

StartUpdate(t, filePath, event, content, viaEvent) ==
    /\ EnterUpdate(t, filePath, event, content, viaEvent)
    /\ UNCHANGED seqVars

\* NewFileEvent enters its critical section; the observer notes the order in
\* which the calls got AssetMin.mu.
EnterEvent(t, filePath, event, content) ==
    /\ EnterUpdate(t, filePath, event, content, TRUE)
    /\ last' = [last EXCEPT !.val = Append(last.val, filePath)]
    /\ UNCHANGED <<prev, crud, watch>>

\* h.InvalidateCache(): Lock, cacheValid = false, Unlock.
UcInvalidate(t) ==
    /\ pc[t] = "uc_invalidate"
    /\ mu[ConcBundle] = 0
    /\ assets' = [assets EXCEPT ![ConcBundle] = InvalidateAsset(assets[ConcBundle])]
    /\ pc' = [pc EXCEPT ![t] = "uc_switch"]
    /\ UNCHANGED <<registeredIconIDs, buildOnDisk, ssrMode, disk, initJS, seqVars, loc, mu, cmu>>

\* What follows UpdateContent: processAsset for NewFileEvent, the return otherwise.
AfterUpdate(t) == IF loc[t].viaEvent THEN "pa_wait" ELSE "idle"

\* The switch of UpdateContent starts: it reads contentMiddle and begins to
\* store, holding no lock.  An event that changes nothing stores nothing.
UcBegin(t) ==
    LET body == assets[ConcBundle].contentMiddle
        f == [path |-> loc[t].path, content |-> loc[t].content]
        after == UpdateContentMiddle(body, loc[t].path, loc[t].event, f)
    IN
    /\ pc[t] = "uc_switch"
    /\ IF after = body
       THEN /\ pc' = [pc EXCEPT ![t] = AfterUpdate(t)]
            /\ loc' = [loc EXCEPT ![t] = IF loc[t].viaEvent THEN loc[t] ELSE IdleLocals]
       ELSE /\ pc' = [pc EXCEPT ![t] = "uc_mutating"]
            /\ loc' = [loc EXCEPT ![t].pending = after]
    /\ UNCHANGED <<progVars, initJS, seqVars, mu, cmu>>

\* The switch of UpdateContent ends: the store is complete.
UcEnd(t) ==
    /\ pc[t] = "uc_mutating"
    /\ assets' = [assets EXCEPT ![ConcBundle].contentMiddle = loc[t].pending]
    /\ pc' = [pc EXCEPT ![t] = AfterUpdate(t)]
    /\ loc' = [loc EXCEPT ![t] = IF loc[t].viaEvent THEN [loc[t] EXCEPT !.pending = <<>>] ELSE IdleLocals]
    /\ UNCHANGED <<registeredIconIDs, buildOnDisk, ssrMode, disk, initJS, seqVars, mu, cmu>>

\* processAsset -> RegenerateCache: h.mu.Lock().
PaLock(t) ==
    /\ pc[t] = "pa_wait"
    /\ mu[ConcBundle] = 0
    /\ mu' = [mu EXCEPT ![ConcBundle] = t]
    /\ pc' = [pc EXCEPT ![t] = "regen"]
    /\ UNCHANGED <<progVars, initJS, seqVars, loc, cmu>>

\* GetMinifiedContent: RLock, the first check, RUnlock.
GetStart(t) ==
    /\ pc[t] = "idle"
    /\ mu[ConcBundle] = 0
    /\ IF CacheHit(assets[ConcBundle])
       THEN UNCHANGED <<pc, loc>>
       ELSE /\ pc' = [pc EXCEPT ![t] = "get_wait"]
            /\ loc' = [loc EXCEPT ![t] = [IdleLocals EXCEPT !.op = "GetMinifiedContent"]]
    /\ UNCHANGED <<progVars, initJS, seqVars, mu, cmu>>

\* Mutant of GetLock: the validity flag is not checked again under the lock.
GetLockNoRecheck(t) ==
    /\ pc[t] = "get_wait"
    /\ mu[ConcBundle] = 0
    /\ pc' = [pc EXCEPT ![t] = "regen"]
    /\ mu' = [mu EXCEPT ![ConcBundle] = t]
    /\ UNCHANGED loc
    /\ UNCHANGED <<progVars, initJS, seqVars, cmu>>

\* GetMinifiedContent: Lock and the second check.
GetLock(t) ==
    /\ pc[t] = "get_wait"
    /\ mu[ConcBundle] = 0
    /\ IF CacheHit(assets[ConcBundle])
       THEN /\ pc' = [pc EXCEPT ![t] = "idle"]
            /\ loc' = [loc EXCEPT ![t] = IdleLocals]
            /\ UNCHANGED mu
       ELSE /\ pc' = [pc EXCEPT ![t] = "regen"]
            /\ mu' = [mu EXCEPT ![ConcBundle] = t]
            /\ UNCHANGED loc
    /\ UNCHANGED <<progVars, initJS, seqVars, cmu>>

\* RegenerateCache called directly: h.mu.Lock().
RegenerateStart(t) ==
    /\ pc[t] = "idle"
    /\ mu[ConcBundle] = 0
    /\ mu' = [mu EXCEPT ![ConcBundle] = t]
    /\ pc' = [pc EXCEPT ![t] = "regen"]
    /\ loc' = [loc EXCEPT ![t] = [IdleLocals EXCEPT !.op = "RegenerateCache"]]
    /\ UNCHANGED <<progVars, initJS, seqVars, cmu>>

\* Under h.mu: WriteContent, the minifier, the store of cachedMinified and
\* cacheValid, Unlock; NewFileEvent then returns and releases c.mu.
Regenerate(t) ==
    /\ pc[t] = "regen"
    /\ \E body \in ReadableBodies(t) :
          LET h == assets[ConcBundle]
              seen == [h EXCEPT !.contentMiddle = body]
              done == RegenerateAsset(seen, ConcBundle, initJS)
          IN /\ assets' = [assets EXCEPT ![ConcBundle] =
                              [h EXCEPT !.cachedMinified = done.cachedMinified,
                                        !.cacheValid = done.cacheValid]]
             /\ disk' = IF loc[t].viaEvent
                        THEN [disk EXCEPT ![ConcBundle] =
                                 ProcessedDisk(disk[ConcBundle], seen, ConcBundle, initJS, buildOnDisk)]
                        ELSE disk
    /\ mu' = [mu EXCEPT ![ConcBundle] = 0]
    /\ cmu' = IF loc[t].viaEvent THEN 0 ELSE cmu
    /\ pc' = [pc EXCEPT ![t] = "idle"]
    /\ loc' = [loc EXCEPT ![t] = IdleLocals]
    /\ UNCHANGED <<registeredIconIDs, buildOnDisk, ssrMode, initJS, seqVars>>

\* InjectSpriteIcon: c.mu.Lock().
InjectStart(t, id, svg) ==
    /\ pc[t] = "idle"
    /\ cmu = 0
    /\ cmu' = t
    /\ pc' = [pc EXCEPT ![t] = "inject"]
    /\ loc' = [loc EXCEPT ![t] = [IdleLocals EXCEPT !.op = "InjectSpriteIcon", !.path = id,
                                      !.content = svg]]
    /\ UNCHANGED <<progVars, initJS, seqVars, mu>>

\* InjectSpriteIcon: addIcon (AddContentMiddle takes h.mu), c.mu.Unlock().
InjectAdd(t) ==
    /\ pc[t] = "inject"
    /\ IconCollides(registeredIconIDs, loc[t].path) \/ mu[ConcBundle] = 0
    /\ assets' = [assets EXCEPT ![ConcBundle] =
                     addIconAsset(assets[ConcBundle], registeredIconIDs, loc[t].path, loc[t].content)]
    /\ registeredIconIDs' = addIconRegistry(registeredIconIDs, loc[t].path)
    /\ cmu' = 0
    /\ pc' = [pc EXCEPT ![t] = "idle"]
    /\ loc' = [loc EXCEPT ![t] = IdleLocals]
    /\ UNCHANGED <<buildOnDisk, ssrMode, disk, initJS, seqVars, mu>>

\* ------------------------------------------ specification: concurrent callers
ConcContents == {<<"<circle/>">>, <<"<rect/>">>}
ConcSvg == <<"<path/>">>
ConcIds == {IconNames[1]}

ConcUpdate(t) ==
    \E id \in ConcIds, viaEvent \in BOOLEAN :
        \/ \E c \in ConcContents : StartUpdate(t, IconFile(id), "write", c, viaEvent)
        \/ StartUpdate(t, IconFile(id), "remove", <<>>, viaEvent)

ConcInject(t) == \E id \in ConcIds : InjectStart(t, id, ConcSvg)

NextConc ==
    \E t \in Threads :
        \/ ConcUpdate(t)
        \/ UcInvalidate(t)
        \/ UcBegin(t)
        \/ UcEnd(t)
        \/ PaLock(t)
        \/ GetStart(t)
        \/ GetLock(t)
        \/ RegenerateStart(t)
        \/ Regenerate(t)
        \/ ConcInject(t)
        \/ InjectAdd(t)

SpecConc == Init /\ [][NextConc]_vars

\* ------------------------------------------ specification: concurrent events
\* One goroutine per file: a create event for every file, all at once; when
\* all have returned, a write event for every file, all at once.  Goroutines
\* that are not inside an event read the bundle.
EventPath(t) == PathNames[t]
CreatedContent(t) == <<"created", PathNames[t]>>
UpdatedContent(t) == <<"updated", PathNames[t]>>

\* How many events on filePath have entered so far.
Entered(filePath) == CountToken(last.val, filePath)

\* wg.Wait() after the creations: every create event has returned.
AllCreated == Len(last.val) > NumThreads \/ (Len(last.val) = NumThreads /\ cmu = 0)

EventCreate(t) ==
    /\ Entered(EventPath(t)) = 0
    /\ EnterEvent(t, EventPath(t), "create", CreatedContent(t))

EventWrite(t) ==
    /\ Entered(EventPath(t)) = 1
    /\ AllCreated
    /\ EnterEvent(t, EventPath(t), "write", UpdatedContent(t))

NextEvents ==
    \E t \in Threads :
        \/ EventCreate(t)
        \/ EventWrite(t)
        \/ UcInvalidate(t)
        \/ UcBegin(t)
        \/ UcEnd(t)
        \/ PaLock(t)
        \/ GetStart(t)
        \/ GetLock(t)
        \/ Regenerate(t)

SpecEvents == Init /\ [][NextEvents]_vars

\* ------------------------------------------------ claims: concurrent callers
Quiescent == \A t \in Threads : pc[t] = "idle"

\* C1 (no torn reads): no goroutine is inside WriteContent (holding the bundle's
\* lock to produce a snapshot) while another is inside the switch of
\* UpdateContent storing into the body, and no snapshot holds part of an entry.
C1_NoTornReads ==
    /\ \A t, u \in Threads : ~(pc[t] = "regen" /\ Mutating(u))
    /\ ~HasToken(assets[ConcBundle].cachedMinified, TornContent[1])

\* C2 (cached-snapshot invariant): with a constant initializer, whenever no call
\* is in progress, cacheValid implies that cachedMinified is the minification of
\* the bundle's current prologue, body and epilogue.
C2_CachedSnapshot ==
    Quiescent =>
        \A b \in Bundles :
            assets[b].cacheValid =>
                assets[b].cachedMinified = Minify(MediaType(b), WriteContent(assets[b], b, initJS))

\* ------------------------------------------------ claims: concurrent events
\* The paths of the body's entries, in order.
BodyPaths(b) == [i \in 1..Len(Body(b)) |-> Body(b)[i].path]

\* The goroutine that handles filePath.
ThreadOf(filePath) == CHOOSE t \in Threads : EventPath(t) = filePath

\* The events on filePath that have returned.
Returned(filePath) ==
    IF cmu # 0 /\ loc[cmu].path = filePath THEN Entered(filePath) - 1 ELSE Entered(filePath)

\* C17 (concurrent file events): whenever no call is in progress, the body
\* holds exactly one entry per created file, in the order in which the create
\* events entered the critical section, and the entry of every file whose write
\* event has returned holds the updated content, the others the created one.
C17_ConcurrentEvents ==
    Quiescent =>
        /\ BodyPaths(ConcBundle) = SubSeq(last.val, 1, IF Len(last.val) < NumThreads THEN Len(last.val) ELSE NumThreads)
        /\ \A i \in 1..Len(Body(ConcBundle)) :
              LET t == ThreadOf(Body(ConcBundle)[i].path)
              IN Body(ConcBundle)[i].content =
                    IF Entered(EventPath(t)) = 2 THEN UpdatedContent(t) ELSE CreatedContent(t)

C17_Witness ==
    /\ Quiescent
    /\ Len(last.val) = 2 * NumThreads
    /\ Len(Body(ConcBundle)) = NumThreads
    /\ BodyPaths(ConcBundle)[1] = EventPath(NumThreads)
    /\ \A t \in Threads : Contains(assets[ConcBundle].cachedMinified, UpdatedContent(t))

\* What GetMinifiedContent can hand to the minifier when goroutine u runs
\* WriteContent now.
ReadableBuffers(u) ==
    {WriteContent([assets[ConcBundle] EXCEPT !.contentMiddle = body], ConcBundle, initJS) :
        body \in ReadableBodies(u)}

QuietInject ==
    /\ Quiescent
    /\ \E id \in IconIds : InjectSpriteIcon(id, ConcSvg)

NextGets ==
    \/ QuietInject
    \/ \E t \in Threads :
          \/ GetStart(t)
          \/ GetLock(t)
          \/ Regenerate(t)

SpecGets == Init /\ [][NextGets]_vars

\* ------------------------------------------------ claims: concurrent reads
\* Goroutine t goes from one place of GetMinifiedContent to another in this step.
Moves(from, to) == \E t \in Threads : pc[t] = from /\ pc'[t] = to

\* C28 (double-checked locking): concurrent GetMinifiedContent calls on a
\* bundle whose cache is invalid, with no mutation meanwhile: after taking
\* the exclusive lock a call goes on to the minifier only if the cache is
\* still invalid and otherwise returns the cached bytes; the minifier runs
\* only on an invalid cache and leaves it valid, hence once; and a valid
\* cache keeps its bytes until the body changes, so all calls return the
\* same bytes.
C28_DoubleChecked ==
    [][LET h == assets[ConcBundle]
           g == assets'[ConcBundle]
       IN /\ Moves("get_wait", "regen") => ~h.cacheValid /\ mu[ConcBundle] = 0
          /\ Moves("get_wait", "idle") => h.cacheValid /\ g = h
          /\ Moves("regen", "idle") =>
                /\ ~h.cacheValid
                /\ g.cacheValid
                /\ g.cachedMinified = Minify(MediaType(ConcBundle), WriteContent(h, ConcBundle, initJS))
          /\ (h.cacheValid /\ g.contentMiddle = h.contentMiddle) =>
                g.cacheValid /\ g.cachedMinified = h.cachedMinified]_vars

\* C28 witness: one call has regenerated the cache and returned while another,
\* which found the cache invalid at its first check, waits for the lock.
C28_Witness ==
    /\ assets[ConcBundle].cacheValid
    /\ Body(ConcBundle) # <<>>
    /\ \E t \in Threads :
          /\ pc[t] = "get_wait"
          /\ \A u \in Threads \ {t} : pc[u] = "idle"

\* ------------------------------------------------- the locks, step by step
\* Calls that begin with c.mu.Lock() wait for it in "c_wait"; a call of
\* GetMinifiedContent waits for the read lock in "get_rwait"; a call of
\* RegenerateCache waits for h.mu in "pa_wait".  RefreshAsset and
\* SetBuildOnDisk go through processAsset for the bundles in loc.pending:
\* "proc_wait" before h.mu.Lock(), "proc_regen" while holding it.

\* NewFileEvent(fileName, ".svg", filePath, event): not in SSR mode, filePath
\* is not an output path; the call reaches c.mu.Lock().
EventCall(t, filePath, event, content) ==
    /\ pc[t] = "idle"
    /\ ~ssrMode
    /\ ~isOutputPath(filePath)
    /\ pc' = [pc EXCEPT ![t] = "c_wait"]
    /\ loc' = [loc EXCEPT ![t] = [IdleLocals EXCEPT !.op = "NewFileEvent", !.path = filePath,
                                      !.event = event, !.content = content]]
    /\ UNCHANGED <<progVars, initJS, seqVars, mu, cmu>>

\* RefreshAsset(extension) reaches c.mu.Lock().
RefreshCall(t, extension) ==
    /\ pc[t] = "idle"
    /\ pc' = [pc EXCEPT ![t] = "c_wait"]
    /\ loc' = [loc EXCEPT ![t] = [IdleLocals EXCEPT !.op = "RefreshAsset", !.path = extension]]
    /\ UNCHANGED <<progVars, initJS, seqVars, mu, cmu>>

\* SetBuildOnDisk(onDisk) reaches c.mu.Lock(); the argument is kept in
\* loc.content.
BuildOnDiskCall(t, onDisk) ==
    /\ pc[t] = "idle"
    /\ pc' = [pc EXCEPT ![t] = "c_wait"]
    /\ loc' = [loc EXCEPT ![t] = [IdleLocals EXCEPT !.op = "SetBuildOnDisk", !.content = <<onDisk>>]]
    /\ UNCHANGED <<progVars, initJS, seqVars, mu, cmu>>

\* InjectSpriteIcon(id, svg) reaches c.mu.Lock().
InjectCall(t, id, svg) ==
    /\ pc[t] = "idle"
    /\ pc' = [pc EXCEPT ![t] = "c_wait"]
    /\ loc' = [loc EXCEPT ![t] = [IdleLocals EXCEPT !.op = "InjectSpriteIcon", !.path = id,
                                      !.content = svg]]
    /\ UNCHANGED <<progVars, initJS, seqVars, mu, cmu>>

\* asset.RegenerateCache called directly reaches h.mu.Lock().
RegenerateCall(t) ==
    /\ pc[t] = "idle"
    /\ pc' = [pc EXCEPT ![t] = "pa_wait"]
    /\ loc' = [loc EXCEPT ![t] = [IdleLocals EXCEPT !.op = "RegenerateCache"]]
    /\ UNCHANGED <<progVars, initJS, seqVars, mu, cmu>>

\* asset.GetMinifiedContent reaches h.mu.RLock().
GetCall(t) ==
    /\ pc[t] = "idle"
    /\ pc' = [pc EXCEPT ![t] = "get_rwait"]
    /\ loc' = [loc EXCEPT ![t] = [IdleLocals EXCEPT !.op = "GetMinifiedContent"]]
    /\ UNCHANGED <<progVars, initJS, seqVars, mu, cmu>>

\* GetMinifiedContent: RLock, the first check, RUnlock.
GetRead(t) ==
    /\ pc[t] = "get_rwait"
    /\ mu[ConcBundle] = 0
    /\ IF CacheHit(assets[ConcBundle])
       THEN /\ pc' = [pc EXCEPT ![t] = "idle"]
            /\ loc' = [loc EXCEPT ![t] = IdleLocals]
       ELSE /\ pc' = [pc EXCEPT ![t] = "get_wait"]
            /\ UNCHANGED loc
    /\ UNCHANGED <<progVars, initJS, seqVars, mu, cmu>>

\* The order in which SetBuildOnDisk(true) hands the bundles to processAsset.
ProcessOrder == <<"css", "js", "svg", "favicon", "html">>

\* c.mu.Lock() returns: NewFileEvent goes on to UpdateContent, InjectSpriteIcon
\* to addIcon, RefreshAsset to the bundle of its switch, SetBuildOnDisk stores
\* the mode and goes on to every bundle when it is true.
CmuLock(t) ==
    /\ pc[t] = "c_wait"
    /\ cmu = 0
    /\ cmu' = t
    /\ CASE loc[t].op = "NewFileEvent" ->
              /\ pc' = [pc EXCEPT ![t] = "uc_invalidate"]
              /\ loc' = [loc EXCEPT ![t].op = "UpdateContent", ![t].viaEvent = TRUE]
              /\ UNCHANGED buildOnDisk
         [] loc[t].op = "InjectSpriteIcon" ->
              /\ pc' = [pc EXCEPT ![t] = "inject"]
              /\ UNCHANGED <<loc, buildOnDisk>>
         [] loc[t].op = "RefreshAsset" ->
              /\ pc' = [pc EXCEPT ![t] = "proc_wait"]
              /\ loc' = [loc EXCEPT ![t].pending =
                            IF RefreshTarget(loc[t].path) = NoBundle THEN <<>>
                            ELSE <<RefreshTarget(loc[t].path)>>]
              /\ UNCHANGED buildOnDisk
         [] OTHER ->
              /\ pc' = [pc EXCEPT ![t] = "proc_wait"]
              /\ loc' = [loc EXCEPT ![t].pending = IF loc[t].content[1] THEN ProcessOrder ELSE <<>>]
              /\ buildOnDisk' = loc[t].content[1]
    /\ UNCHANGED <<assets, registeredIconIDs, ssrMode, disk, initJS, seqVars, mu>>

\* processAsset -> RegenerateCache: h.mu.Lock() on the next pending bundle.
ProcessLock(t) ==
    /\ pc[t] = "proc_wait"
    /\ loc[t].pending # <<>>
    /\ mu[Head(loc[t].pending)] = 0
    /\ mu' = [mu EXCEPT ![Head(loc[t].pending)] = t]
    /\ pc' = [pc EXCEPT ![t] = "proc_regen"]
    /\ UNCHANGED <<progVars, initJS, seqVars, loc, cmu>>

\* Under h.mu: WriteContent, the minifier, the store, Unlock; then FileWrite
\* when buildOnDisk.  An error is logged or dropped and the caller goes on.
ProcessRegenerate(t) ==
    LET b == Head(loc[t].pending) IN
    /\ pc[t] = "proc_regen"
    /\ \E body \in (IF b = ConcBundle THEN ReadableBodies(t) ELSE {assets[b].contentMiddle}) :
          LET h == assets[b]
              seen == [h EXCEPT !.contentMiddle = body]
              done == RegenerateAsset(seen, b, initJS)
          IN /\ assets' = [assets EXCEPT ![b] =
                              [h EXCEPT !.cachedMinified = done.cachedMinified,
                                        !.cacheValid = done.cacheValid]]
             /\ disk' = [disk EXCEPT ![b] = ProcessedDisk(disk[b], seen, b, initJS, buildOnDisk)]
    /\ mu' = [mu EXCEPT ![b] = 0]
    /\ pc' = [pc EXCEPT ![t] = "proc_wait"]
    /\ loc' = [loc EXCEPT ![t].pending = Tail(loc[t].pending)]
    /\ UNCHANGED <<registeredIconIDs, buildOnDisk, ssrMode, initJS, seqVars, cmu>>

\* Mutant of ProcessReturn: the method returns without c.mu.Unlock().
ProcessReturnHolds(t) ==
    /\ pc[t] = "proc_wait"
    /\ loc[t].pending = <<>>
    /\ pc' = [pc EXCEPT ![t] = "idle"]
    /\ loc' = [loc EXCEPT ![t] = IdleLocals]
    /\ UNCHANGED <<progVars, initJS, seqVars, mu, cmu>>

\* RefreshAsset and SetBuildOnDisk return: the deferred c.mu.Unlock().
ProcessReturn(t) ==
    /\ pc[t] = "proc_wait"
    /\ loc[t].pending = <<>>
    /\ cmu' = 0
    /\ pc' = [pc EXCEPT ![t] = "idle"]
    /\ loc' = [loc EXCEPT ![t] = IdleLocals]
    /\ UNCHANGED <<progVars, initJS, seqVars, mu>>

\* ------------------------------------------------------ specification: locks
LockContents == {<<"<circle/>">>}

\* A goroutine starts a call.
Calls(t) ==
    \/ \E id \in ConcIds, c \in LockContents : EventCall(t, IconFile(id), "write", c)
    \/ \E extension \in {".js", ".svg"} : RefreshCall(t, extension)
    \/ \E onDisk \in BOOLEAN : BuildOnDiskCall(t, onDisk)
    \/ \E id \in ConcIds : InjectCall(t, id, ConcSvg)
    \/ RegenerateCall(t)
    \/ GetCall(t)

\* A goroutine inside a call takes its next step.
Advance(t) ==
    \/ CmuLock(t)
    \/ UcInvalidate(t)
    \/ UcBegin(t)
    \/ UcEnd(t)
    \/ PaLock(t)
    \/ GetRead(t)
    \/ GetLock(t)
    \/ Regenerate(t)
    \/ InjectAdd(t)
    \/ ProcessLock(t)
    \/ ProcessRegenerate(t)
    \/ ProcessReturn(t)

NextLocks == \E t \in Threads : Calls(t) \/ Advance(t)

SpecLocks == Init /\ [][NextLocks]_vars

\* The scheduler runs every goroutine that can run, and sync.Mutex and
\* sync.RWMutex hand a lock to a goroutine that keeps waiting for it
\* (starvation mode): a step that is enabled again and again is taken.
SpecLocksFair == SpecLocks /\ \A t \in Threads : SF_vars(Advance(t))

\* ------------------------------------------------------------ claims: locks
\* The goroutines that hold a bundle's lock.
BundleLockHolders == {mu[b] : b \in Bundles} \ {0}

\* C36 (deadlock freedom): no goroutine waits for or takes AssetMin.mu while
\* it holds a bundle's lock, no goroutine holds two bundle locks, and under
\* every fair interleaving of NewFileEvent, RefreshAsset, SetBuildOnDisk,
\* InjectSpriteIcon, RegenerateCache and GetMinifiedContent calls every call
\* that has started returns.
C36_DeadlockFreedom ==
    /\ [](\A t \in BundleLockHolders :
             /\ pc[t] # "c_wait"
             /\ Cardinality({b \in Bundles : mu[b] = t}) = 1)
    /\ [][\A t \in Threads : (cmu # t /\ cmu' = t) => t \notin BundleLockHolders]_vars
    /\ \A t \in Threads : (pc[t] # "idle") ~> (pc[t] = "idle")

\* C36 witness: a goroutine inside SetBuildOnDisk holds AssetMin.mu and waits
\* for the sprite bundle's lock, which a direct caller holds.
C36_Witness ==
    \E t, u \in Threads :
        /\ t # u
        /\ cmu = t
        /\ pc[t] = "proc_wait"
        /\ loc[t].op = "SetBuildOnDisk"
        /\ loc[t].pending # <<>>
        /\ Head(loc[t].pending) = ConcBundle
        /\ mu[ConcBundle] = u
        /\ pc[u] = "regen"

====
